---- MODULE Spec2Model ----
(***************************************************************************)
(* LinkedIn profile optimizer: the LangGraph workflow                      *)
(* (backend/workflows/linkedin_optimizer_workflow.py), its three agents    *)
(* and the DynamoDB storage utility (backend/utils/dynamodb_storage.py).   *)
(*                                                                         *)
(* Representation.                                                         *)
(*  - A Python str is a sequence of fragments.  Text that comes from a     *)
(*    collaborator's exception is spelled one character per fragment, so   *)
(*    that lower() and the substring test `keyword in text` are computed.  *)
(*    A string literal of the program is a single fragment, which lower()  *)
(*    and the substring test pass over: the literals that are ever         *)
(*    searched contain no critical keyword in any letter case, and no      *)
(*    keyword can straddle the end of one (they end in ": " or stand       *)
(*    alone).                                                              *)
(*    None and "" of an Optional[str] are both the empty sequence where    *)
(*    the program only tests truthiness (state.error).                     *)
(*  - A parsed JSON value is a tagged record (JNull, JBool, JNum, JStr,    *)
(*    JList, JObj); a dict is a function from its keys, {} is <<>>.        *)
(*  - An insertion-ordered dict whose order matters (step_timings) is a    *)
(*    sequence of <<key, value>> pairs.                                    *)
(*  - time.time() differences are integers 0..MaxDuration.                 *)
(***************************************************************************)
EXTENDS Integers, Sequences, FiniteSets, TLC

\* ---------------------------------------------------------------- bounds
MaxDuration == 1

\* how many times in a row a routine is applied to its own output
MaxApplications == 2

\* ------------------------------------------------------------------ text
UpperCase == <<"A","B","C","D","E","F","G","H","I","J","K","L","M","N","O","P","Q","R","S","T","U","V","W","X","Y","Z">>

LowerCase == <<"a","b","c","d","e","f","g","h","i","j","k","l","m","n","o","p","q","r","s","t","u","v","w","x","y","z">>

\* the program's literal prefixes
LitCollection == "Error in profile collection: "

LitAnalysis == "Error in profile analysis: "

LitContent == "Error in content generation: "

LitCompile == "Error compiling results: "

LitExtractBytes == "Error extracting profile data from bytes: "

LitExtractPath == "Error extracting profile data: "

LitPdfBytes == "Error extracting text from PDF bytes: "

LitAnalyzing == "Error analyzing profile: "

LitGenerating == "Error generating content: "

LitInvalidJson == "Invalid JSON response from LLM: "

LowerChar(c) ==
    IF \E i \in 1..Len(UpperCase) : UpperCase[i] = c
    THEN LowerCase[CHOOSE i \in 1..Len(UpperCase) : UpperCase[i] = c]
    ELSE c

\* str.lower()
Lower(text) == [i \in 1..Len(text) |-> LowerChar(text[i])]

\* `sub in text`
Contains(text, sub) ==
    \E i \in 0..(Len(text) - Len(sub)) :
        \A j \in 1..Len(sub) : text[i + j] = sub[j]

\* any(keyword in text for keyword in keywords)
ContainsAny(text, keywords) ==
    \E n \in 1..Len(keywords) : Contains(text, keywords[n])

\* ------------------------------------------------------------------ JSON
JNull == [t |-> "null"]

JBool(b) == [t |-> "bool", b |-> b]

JNum(n) == [t |-> "num", n |-> n]

JStr(s) == [t |-> "str", s |-> s]

JList(l) == [t |-> "list", l |-> l]

JObj(o) == [t |-> "obj", o |-> o]

\* bool(x) of a parsed JSON value
Truthy(j) ==
    CASE j.t = "null" -> FALSE
      [] j.t = "bool" -> j.b
      [] j.t = "num" -> j.n # 0
      [] j.t = "str" -> j.s # ""
      [] j.t = "list" -> Len(j.l) > 0
      [] j.t = "obj" -> DOMAIN j.o # {}

\* dict.get(key, default)
Get(j, key, default) == IF key \in DOMAIN j.o THEN j.o[key] ELSE default

\* the outcome of a call that may raise
Ok(v) == [ok |-> TRUE, val |-> v]

Raise(text) == [ok |-> FALSE, exc |-> text]

TypeErrorText == <<"TypeError">>

\* the dict d with every key of `defaults` that it lacks set to its default
SetDefaults(d, defaults) ==
    [k \in (DOMAIN d) \cup (DOMAIN defaults) |->
       IF k \in DOMAIN d THEN d[k] ELSE defaults[k]]

\* the list l with every item that is a dict completed by the defaults; the
\* loop `for item in l: if key not in item: item[key] = ...` raises on an
\* item that supports no item assignment
ItemsOk(l) == \A i \in 1..Len(l) : l[i].t = "obj"

\* ------------------------------------------------- agents: normalization
ProfileRequiredKeys ==
    {"personal_info", "summary", "experience", "education", "skills",
     "certifications", "recommendations", "endorsements", "languages",
     "volunteer_experience", "publications_projects"}

PersonalInfoKeys == {"name", "title", "location", "email", "phone", "linkedin_url"}

ProfileListKeys == ProfileRequiredKeys \ {"personal_info", "summary"}

ProfileDefault(key) ==
    IF key # "summary" /\ key # "personal_info" THEN JList(<<>>) ELSE JNull

PersonalInfoDefault(key) == JNull

\* ProfileCollectorAgent._validate_profile_data
ValidateProfileData(profile_data) ==
    IF profile_data.t # "obj" THEN Raise(TypeErrorText)
    ELSE
      LET filled == SetDefaults(profile_data.o, [key \in ProfileRequiredKeys |-> ProfileDefault(key)])
          personal_info == IF Truthy(filled["personal_info"])
                           THEN filled["personal_info"] ELSE JObj(<<>>)
      IN IF personal_info.t # "obj" THEN Raise(TypeErrorText)
         ELSE Ok(JObj(
           [k \in DOMAIN filled |->
              IF k = "personal_info"
              THEN JObj(SetDefaults(personal_info.o, [key \in PersonalInfoKeys |-> PersonalInfoDefault(key)]))
              ELSE IF k \in ProfileListKeys /\ filled[k].t # "list"
                   THEN JList(<<>>)
                   ELSE filled[k]]))

AnalysisRequiredKeys ==
    {"overall_score", "strengths", "areas_for_improvement", "recommendations",
     "industry_insights", "next_steps"}

AnalysisDefault(key) ==
    IF key \in {"strengths", "areas_for_improvement", "next_steps"} THEN JList(<<>>)
    ELSE IF key = "overall_score" THEN JNum(0)
    ELSE IF key = "recommendations" THEN JObj(<<>>)
    ELSE JStr("")

EmptyTriple == JObj([current |-> JStr(""), suggested |-> JStr(""), reasoning |-> JStr("")])

RecommendationListKeys ==
    {"experience_optimization", "skills_to_add", "skills_to_emphasize",
     "keywords_to_include", "certifications_to_pursue"}

RecommendationDefault(key) ==
    IF key \in {"headline", "summary"} THEN EmptyTriple ELSE JList(<<>>)

\* max(0, min(100, score)) for a number, 0 for anything that is not one
\* (a bool is an int in Python: max(0, min(100, True)) is True, and
\* max(0, min(100, False)) is the first maximal argument, 0)
ClampScore(score) ==
    IF score.t = "num"
    THEN JNum(IF score.n < 0 THEN 0 ELSE IF score.n > 100 THEN 100 ELSE score.n)
    ELSE IF score.t = "bool" /\ score.b THEN score
    ELSE JNum(0)

\* ProfileAnalyzerAgent._validate_analysis_results
ValidateAnalysisResults(analysis_results) ==
    IF analysis_results.t # "obj" THEN Raise(TypeErrorText)
    ELSE
      LET filled == SetDefaults(analysis_results.o, [key \in AnalysisRequiredKeys |-> AnalysisDefault(key)])
          recommendations == filled["recommendations"]
      IN IF recommendations.t # "obj" THEN Raise(TypeErrorText)
         ELSE
           LET recs == SetDefaults(recommendations.o,
                                   [key \in {"headline", "summary"} \cup RecommendationListKeys |->
                                      RecommendationDefault(key)])
           IN Ok(JObj(
                [k \in DOMAIN filled |->
                   IF k = "overall_score" THEN ClampScore(filled[k])
                   ELSE IF k = "recommendations"
                   THEN JObj([r \in DOMAIN recs |->
                                IF r \in RecommendationListKeys /\ recs[r].t # "list"
                                THEN JList(<<>>) ELSE recs[r]])
                   ELSE filled[k]]))

ContentRequiredKeys ==
    {"content_strategy", "content_ideas", "sample_posts", "weekly_content_calendar"}

ContentDefault(key) == IF key # "content_strategy" THEN JList(<<>>) ELSE JObj(<<>>)

StrategyKeys == {"posting_frequency", "best_posting_times", "content_pillars", "hashtag_strategy"}

StrategyDefault(key) ==
    IF key \in {"best_posting_times", "content_pillars", "hashtag_strategy"}
    THEN JList(<<>>) ELSE JStr("")

IdeaKeys == {"type", "topic", "objective", "target_audience", "content", "hashtags", "call_to_action"}

IdeaDefault(key) == IF key = "hashtags" THEN JList(<<>>) ELSE JStr("")

PostKeys == {"title", "content", "hashtags", "engagement_hooks"}

PostDefault(key) == IF key \in {"hashtags", "engagement_hooks"} THEN JList(<<>>) ELSE JStr("")

CalendarKeys == {"day", "content_type", "topic", "brief_description"}

CalendarDefault(key) == JStr("")

\* a "should be list" field: [] unless it is a list
AsList(j) == IF j.t = "list" THEN j.l ELSE <<>>

\* ContentGeneratorAgent._validate_content_results
ValidateContentResults(content_results) ==
    IF content_results.t # "obj" THEN Raise(TypeErrorText)
    ELSE
      LET filled == SetDefaults(content_results.o, [key \in ContentRequiredKeys |-> ContentDefault(key)])
          strategy == filled["content_strategy"]
          ideas == AsList(filled["content_ideas"])
          posts == AsList(filled["sample_posts"])
          calendar == AsList(filled["weekly_content_calendar"])
      IN IF strategy.t # "obj" \/ ~ItemsOk(ideas) \/ ~ItemsOk(posts) \/ ~ItemsOk(calendar)
         THEN Raise(TypeErrorText)
         ELSE Ok(JObj(
           [k \in DOMAIN filled |->
              CASE k = "content_strategy" ->
                     JObj(SetDefaults(strategy.o, [key \in StrategyKeys |-> StrategyDefault(key)]))
                [] k = "content_ideas" ->
                     JList([i \in 1..Len(ideas) |->
                              JObj(SetDefaults(ideas[i].o, [key \in IdeaKeys |-> IdeaDefault(key)]))])
                [] k = "sample_posts" ->
                     JList([i \in 1..Len(posts) |->
                              JObj(SetDefaults(posts[i].o, [key \in PostKeys |-> PostDefault(key)]))])
                [] k = "weekly_content_calendar" ->
                     JList([i \in 1..Len(calendar) |->
                              JObj(SetDefaults(calendar[i].o, [key \in CalendarKeys |-> CalendarDefault(key)]))])
                [] OTHER -> filled[k]]))

SinglePostKeys ==
    {"title", "content", "hashtags", "engagement_hooks", "best_posting_time",
     "expected_engagement"}

SinglePostDefault(key) ==
    IF key \in {"hashtags", "engagement_hooks"} THEN JList(<<>>) ELSE JStr("")

\* _validate_single_post with no key filled in
ValidateSinglePost_unfilled(post_data) == Ok(post_data)

\* ContentGeneratorAgent._validate_single_post
ValidateSinglePost(post_data) ==
    IF post_data.t # "obj" THEN Raise(TypeErrorText)
    ELSE Ok(JObj(SetDefaults(post_data.o, [key \in SinglePostKeys |-> SinglePostDefault(key)])))

\* --------------------------------------------------------------- storage
\* 30 * 24 * 60 * 60, the ttl offset of every item
TtlSeconds == 2592000

\* Decimal(str(x)) of a float
DecimalOf(x) == [decimal |-> x]

\* the step_data entries that hold a float (a time.time() difference)
FloatFields == {"duration", "total_processing_time"}

\* convert_floats_to_decimal, on a step_data dict
convert_floats_to_decimal(step_data) ==
    [k \in DOMAIN step_data |->
        IF k \in FloatFields THEN DecimalOf(step_data[k]) ELSE step_data[k]]

\* json.dumps(obj, default=str): a str that holds the value obj had when it
\* was serialized.  Every value the program serializes is a dict with str
\* keys over lists, str, int, float, bool and None, which json.loads gives
\* back unchanged.
JsonDumps(obj) == [json |-> obj]

\* the stored text handed on as it is, not parsed
JsonLoads_unparsed(text) == text

\* json.loads(text)
JsonLoads(text) == text.json

\* what a storage call can meet at the DynamoDB client:
\*   "ok"               get_item and put_item succeed
\*   "get_client_error" get_item raises ClientError, put_item succeeds
\*   "fail"             the call raises and the method returns False / None
ClientOutcomes == {"ok", "get_client_error", "fail"}

\* the item save_step_progress starts from (lines 185-190)
ExistingItem(table, optimization_id, outcome) ==
    IF outcome = "ok" /\ optimization_id \in DOMAIN table
    THEN table[optimization_id] ELSE <<>>

\* DynamoDBStorage.save_step_progress: the table after the call and the
\* bool it returns
save_step_progress(table, enabled, current_time, optimization_id, step_name, step_data, status, outcome) ==
    IF ~enabled \/ outcome = "fail" THEN [table |-> table, ok |-> FALSE]
    ELSE
      LET item == ExistingItem(table, optimization_id, outcome)
          old_steps == IF "processing_steps" \in DOMAIN item
                       THEN item["processing_steps"] ELSE <<>>
          completed_steps ==
              IF \E i \in 1..Len(old_steps) : old_steps[i] = step_name
              THEN old_steps ELSE Append(old_steps, step_name)
          old_details == IF "step_details" \in DOMAIN item
                         THEN item["step_details"] ELSE <<>>
          detail == [completed_at |-> current_time,
                     data |-> convert_floats_to_decimal(step_data),
                     duration |-> DecimalOf(IF "duration" \in DOMAIN step_data
                                            THEN step_data["duration"] ELSE 0)]
          step_details == (step_name :> detail) @@ old_details
          updated == [optimization_id |-> optimization_id,
                      processing_steps |-> completed_steps,
                      current_step |-> step_name,
                      status |-> status,
                      step_details |-> step_details,
                      updated_at |-> current_time,
                      ttl |-> current_time + TtlSeconds] @@ item
          new_item == IF "created_at" \in DOMAIN updated
                      THEN updated ELSE ("created_at" :> current_time) @@ updated
      IN [table |-> (optimization_id :> new_item) @@ table, ok |-> TRUE]

\* len(x) of a parsed JSON value; -1 stands for the TypeError of a value
\* that has no len()
PyLen(j) ==
    CASE j.t = "list" -> Len(j.l)
      [] j.t = "obj" -> Cardinality(DOMAIN j.o)
      [] j.t = "str" -> IF j.s = "" THEN 0 ELSE 1
      [] OTHER -> -1

\* DynamoDBStorage.save_optimization_result: put_item of a new item
save_optimization_result(table, enabled, current_time, optimization_id, results, request_metadata, outcome) ==
    IF ~enabled \/ outcome = "fail" THEN [table |-> table, ok |-> FALSE]
    ELSE
      LET base == [optimization_id |-> optimization_id,
                   results |-> JsonDumps(results),
                   created_at |-> current_time,
                   updated_at |-> current_time,
                   status |-> IF results.success THEN "completed" ELSE "failed",
                   ttl |-> current_time + TtlSeconds,
                   metadata |-> JsonDumps(request_metadata)]
          summary == results.summary
          ideas == IF results.content_results.t = "obj"
                   THEN Get(results.content_results, "content_ideas", JList(<<>>))
                   ELSE JNull
          improvements == IF "key_improvements" \in DOMAIN summary
                          THEN summary["key_improvements"] ELSE JList(<<>>)
      IN IF ~results.success
         THEN [table |-> (optimization_id :> base) @@ table, ok |-> TRUE]
         ELSE IF PyLen(ideas) < 0 \/ PyLen(improvements) < 0
         THEN [table |-> table, ok |-> FALSE]
         ELSE [table |->
                 (optimization_id :>
                    ([profile_score |-> IF "optimization_score" \in DOMAIN summary
                                        THEN summary["optimization_score"] ELSE JNum(0),
                      completeness_score |-> IF "profile_completeness" \in DOMAIN summary
                                             THEN summary["profile_completeness"] ELSE 0,
                      recommendations_count |-> PyLen(improvements),
                      content_ideas_count |-> PyLen(ideas)] @@ base)) @@ table,
               ok |-> TRUE]

\* DynamoDBStorage.get_optimization_result: the dict it returns, JNull for
\* None
get_optimization_result(table, enabled, current_time, optimization_id, outcome) ==
    IF ~enabled \/ outcome # "ok" THEN JNull
    ELSE IF optimization_id \notin DOMAIN table THEN JNull
    ELSE
      LET item == table[optimization_id]
      IN IF "results" \notin DOMAIN item THEN JNull
         ELSE
           LET results == JsonLoads(item["results"])
               storage_info == [optimization_id |-> optimization_id,
                                created_at |-> IF "created_at" \in DOMAIN item
                                               THEN item["created_at"] ELSE -1,
                                status |-> IF "status" \in DOMAIN item
                                           THEN item["status"] ELSE "None",
                                retrieved_at |-> current_time]
               with_info == ("storage_info" :> storage_info) @@ results
           IN IF "metadata" \in DOMAIN item
              THEN ("request_metadata" :> JsonLoads(item["metadata"])) @@ with_info
              ELSE with_info

\* --------------------------------------------------------- collaborators
\* config.OPENAI_MODEL
OPENAI_MODEL == "gpt-4o"

\* an Optional[str] / Optional[bytes] argument: None, empty or a value
NONE == "None"

\* `x is not None`, which takes an empty value for a given one
IsSet_not_none(x) == x # NONE

\* truthiness of such an argument: `if state.get("pdf_bytes")`, `request_id or`
IsSet(x) == x # NONE /\ x # ""

\* texts of the exceptions the collaborators raise
MsgTimeout == <<"t","i","m","e","o","u","t">>

MsgInvalidApiKey == <<"i","n","v","a","l","i","d","_","a","p","i","_","k","e","y">>

MsgIncorrectApiKey == <<"I","n","c","o","r","r","e","c","t"," ","A","P","I"," ","k","e","y">>

MsgInsufficientQuota == <<"I","N","S","U","F","F","I","C","I","E","N","T","_","Q","U","O","T","A">>

MsgBrokenPdf == <<"b","r","o","k","e","n">>

LLMErrors == {MsgTimeout, MsgInvalidApiKey, MsgIncorrectApiKey, MsgInsufficientQuota}

\* more texts the text generator can raise: one for every critical
\* keyword, in mixed letter case, and one more that holds none
MsgAuthentication == <<"A","u","t","h","e","n","t","i","c","a","t","i","o","n","E","r","r","o","r">>

MsgUnauthorized == <<"4","0","1"," ","U","n","a","u","t","h","o","r","i","z","e","d">>

MsgInvalidRequest == <<"i","n","v","a","l","i","d","_","r","e","q","u","e","s","t","_","e","r","r","o","r">>

MsgRateLimit == <<"R","a","t","e","_","L","i","m","i","t"," ","r","e","a","c","h","e","d">>

MsgQuotaExceeded == <<"q","u","o","t","a","_","e","x","c","e","e","d","e","d">>

MsgMixedQuota == <<"E","r","r","o","r",":"," ","I","n","s","u","f","f","i","c","i","e","n","t","_","Q","u","o","t","a">>

MsgBilling == <<"B","i","l","l","i","n","g"," ","h","a","r","d"," ","l","i","m","i","t">>

MsgPermissionDenied == <<"P","e","r","m","i","s","s","i","o","n"," ","d","e","n","i","e","d">>

MsgForbidden == <<"4","0","3"," ","F","o","r","b","i","d","d","e","n">>

MsgConnection == <<"C","o","n","n","e","c","t","i","o","n"," ","e","r","r","o","r">>

KeywordErrors ==
    LLMErrors \cup {MsgAuthentication, MsgUnauthorized, MsgInvalidRequest, MsgRateLimit, MsgQuotaExceeded,
                     MsgMixedQuota, MsgBilling, MsgPermissionDenied, MsgForbidden, MsgConnection}

\* text that json.loads rejects
Garbage == [t |-> "garbage"]

JSONDecodeErrorText == <<"Expecting value: line 1 column 1 (char 0)">>

\* what PDFParser.extract_text_from_bytes / extract_text_from_pdf can do:
\* return text, return text that is blank after strip(), or raise
ExtractOutcomes == {"text", "blank", "raise"}

\* response_metadata['token_usage'] of a reply
SomeUsage == [prompt_tokens |-> 2, completion_tokens |-> 1, total_tokens |-> 3]

NoUsage == <<>>

ProfileFull ==
    JObj([personal_info |-> JObj([name |-> JStr("Ann"), title |-> JStr("Engineer")]),
          summary |-> JStr("text"),
          experience |-> JList(<<JStr("job")>>),
          skills |-> JStr("python")])

AnalysisFull ==
    JObj([overall_score |-> JNum(150),
          next_steps |-> JList(<<JStr("s1"), JStr("s2"), JStr("s3"), JStr("s4")>>),
          strengths |-> JList(<<JStr("a")>>)])

ContentFull ==
    JObj([content_strategy |-> JObj([posting_frequency |-> JStr("weekly"),
                                     content_pillars |-> JList(<<JStr("p1")>>)]),
          content_ideas |-> JList(<<JObj([topic |-> JStr("t")])>>)])

Reply(content, usage) == [kind |-> "ok", content |-> content, usage |-> usage]

Raises(msg) == [kind |-> "raise", msg |-> msg]

\* what ChatOpenAI.ainvoke can do at each agent
ProfileReplies == {Reply(ProfileFull, SomeUsage), Reply(Garbage, NoUsage)}

AnalysisReplies == {Reply(AnalysisFull, SomeUsage), Reply(Garbage, SomeUsage)}

ContentReplies == {Reply(ContentFull, SomeUsage), Reply(Garbage, SomeUsage)}

LLMFailures == {Raises(m) : m \in LLMErrors}

\* a record of one collaborator call: which function, from which node, the
\* text of the exception it raised (<<>> when it returned) and the kind of
\* value it returned ("none" when it raised)
Call(fn, node, exc, returned) ==
    [fn |-> fn, node |-> node, exc |-> exc, returned |-> returned]

PdfCall(fn, node, extract) ==
    IF extract = "raise" THEN Call(fn, node, MsgBrokenPdf, "none")
    ELSE Call(fn, node, <<>>, extract)

LLMCall(node, llm) ==
    IF llm.kind = "raise" THEN Call("llm.ainvoke", node, llm.msg, "none")
    ELSE Call("llm.ainvoke", node, <<>>, IF llm.content = Garbage THEN "garbage" ELSE "json")

\* token_usage of an agent's result (e.g. profile_collector.py:153-158)
TokenUsage(usage) ==
    JObj([model |-> JStr(OPENAI_MODEL),
          prompt_tokens |-> JNum(IF "prompt_tokens" \in DOMAIN usage
                                 THEN usage["prompt_tokens"] ELSE 0),
          completion_tokens |-> JNum(IF "completion_tokens" \in DOMAIN usage
                                     THEN usage["completion_tokens"] ELSE 0),
          total_tokens |-> JNum(IF "total_tokens" \in DOMAIN usage
                                THEN usage["total_tokens"] ELSE 0)])

\* json.loads of the reply, the agent's validation of the parsed reply
\* (`validated`, read only when the reply parses), and token_usage added to
\* the validated dict; with_usage is FALSE for extract_profile_data
ParseReply(llm, validated, with_usage) ==
    IF llm.content = Garbage THEN Raise(<<LitInvalidJson>> \o JSONDecodeErrorText)
    ELSE IF ~validated.ok THEN validated
    ELSE IF with_usage
    THEN Ok(JObj(("token_usage" :> TokenUsage(llm.usage)) @@ validated.val.o))
    ELSE validated

\* an agent method's outcome: what it returns or raises, and the
\* collaborator calls it made
Outcome(res, calls) == [res |-> res, calls |-> calls]

\* the exception of an agent method, wrapped by its `except Exception`
Wrapped(prefix, res) == IF res.ok THEN res ELSE Raise(<<prefix>> \o res.exc)

\* ProfileCollectorAgent.extract_profile_data_from_bytes
extract_profile_data_from_bytes(node, extract, llm) ==
    LET pdf_call == PdfCall("extract_text_from_bytes", node, extract)
    IN IF extract = "raise"
       THEN Outcome(Wrapped(LitExtractBytes, Raise(<<LitPdfBytes>> \o MsgBrokenPdf)),
                    <<pdf_call>>)
       ELSE IF extract = "blank"
       THEN Outcome(Wrapped(LitExtractBytes, Raise(<<"No text content found in PDF">>)),
                    <<pdf_call>>)
       ELSE IF llm.kind = "raise"
       THEN Outcome(Wrapped(LitExtractBytes, Raise(llm.msg)),
                    <<pdf_call, LLMCall(node, llm)>>)
       ELSE Outcome(Wrapped(LitExtractBytes, ParseReply(llm, ValidateProfileData(llm.content), TRUE)),
                    <<pdf_call, LLMCall(node, llm)>>)

\* ProfileCollectorAgent.extract_profile_data(self, pdf_path), called with
\* the positional arguments args: a call with more than one does not enter
\* the body, Python raises TypeError at the call
extract_profile_data(node, args, extract, llm) ==
    LET pdf_call == PdfCall("extract_text_from_pdf", node, extract)
    IN IF Len(args) # 1
       THEN Outcome(Raise(<<"extract_profile_data() takes 2 positional arguments but 3 were given">>),
                    <<>>)
       ELSE IF extract = "raise"
       THEN Outcome(Wrapped(LitExtractPath, Raise(<<"Invalid PDF file">>)), <<pdf_call>>)
       ELSE IF extract = "blank"
       THEN Outcome(Wrapped(LitExtractPath, Raise(<<"No text content found in PDF">>)),
                    <<pdf_call>>)
       ELSE IF llm.kind = "raise"
       THEN Outcome(Wrapped(LitExtractPath, Raise(llm.msg)),
                    <<pdf_call, LLMCall(node, llm)>>)
       ELSE Outcome(Wrapped(LitExtractPath, ParseReply(llm, ValidateProfileData(llm.content), FALSE)),
                    <<pdf_call, LLMCall(node, llm)>>)

\* analyze_profile invoking the text generator a second time when the
\* first call raised
analyze_profile_retrying(node, profile_data, llm) ==
    IF ~Truthy(profile_data)
    THEN Outcome(Wrapped(LitAnalyzing, Raise(<<"Profile data cannot be empty">>)), <<>>)
    ELSE IF llm.kind = "raise"
    THEN Outcome(Wrapped(LitAnalyzing, Raise(llm.msg)),
                 <<LLMCall(node, llm), LLMCall(node, llm)>>)
    ELSE Outcome(Wrapped(LitAnalyzing, ParseReply(llm, ValidateAnalysisResults(llm.content), TRUE)),
                 <<LLMCall(node, llm)>>)

\* ProfileAnalyzerAgent.analyze_profile
analyze_profile(node, profile_data, llm) ==
    IF ~Truthy(profile_data)
    THEN Outcome(Wrapped(LitAnalyzing, Raise(<<"Profile data cannot be empty">>)), <<>>)
    ELSE IF llm.kind = "raise"
    THEN Outcome(Wrapped(LitAnalyzing, Raise(llm.msg)), <<LLMCall(node, llm)>>)
    ELSE Outcome(Wrapped(LitAnalyzing, ParseReply(llm, ValidateAnalysisResults(llm.content), TRUE)),
                 <<LLMCall(node, llm)>>)

\* ContentGeneratorAgent.generate_content
generate_content(node, profile_data, profile_analysis, llm) ==
    IF ~Truthy(profile_data)
    THEN Outcome(Wrapped(LitGenerating, Raise(<<"Profile data cannot be empty">>)), <<>>)
    ELSE IF ~Truthy(profile_analysis)
    THEN Outcome(Wrapped(LitGenerating, Raise(<<"Profile analysis cannot be empty">>)), <<>>)
    ELSE IF llm.kind = "raise"
    THEN Outcome(Wrapped(LitGenerating, Raise(llm.msg)), <<LLMCall(node, llm)>>)
    ELSE Outcome(Wrapped(LitGenerating, ParseReply(llm, ValidateContentResults(llm.content), TRUE)),
                 <<LLMCall(node, llm)>>)

\* -------------------------------------------------------------- workflow
\* the longest sequence of storage calls made on their own
MaxWrites == 3

\* a time.time() difference
Durations == 0..MaxDuration

\* d[key] = value on an insertion-ordered dict
DictSet(d, key, value) ==
    IF \E i \in 1..Len(d) : d[i][1] = key
    THEN [i \in 1..Len(d) |-> IF d[i][1] = key THEN <<key, value>> ELSE d[i]]
    ELSE Append(d, <<key, value>>)

\* list(d.keys())
Keys(d) == [i \in 1..Len(d) |-> d[i][1]]

\* sum(d.values())
RECURSIVE SumValues(_)
SumValues(d) == IF d = <<>> THEN 0 ELSE d[1][2] + SumValues(Tail(d))

critical_keywords ==
    << <<"a","p","i"," ","k","e","y">>,
       <<"a","u","t","h","e","n","t","i","c","a","t","i","o","n">>,
       <<"u","n","a","u","t","h","o","r","i","z","e","d">>,
       <<"i","n","v","a","l","i","d","_","a","p","i","_","k","e","y">>,
       <<"i","n","v","a","l","i","d","_","r","e","q","u","e","s","t","_","e","r","r","o","r">>,
       <<"r","a","t","e","_","l","i","m","i","t">>,
       <<"q","u","o","t","a","_","e","x","c","e","e","d","e","d">>,
       <<"i","n","s","u","f","f","i","c","i","e","n","t","_","q","u","o","t","a">>,
       <<"b","i","l","l","i","n","g">>,
       <<"p","e","r","m","i","s","s","i","o","n"," ","d","e","n","i","e","d">>,
       <<"f","o","r","b","i","d","d","e","n">> >>

\* _should_continue with the keyword test applied to the text as it stands,
\* not to its lower-cased form
should_continue_case_sensitive(error) ==
    IF error = <<>> THEN "continue"
    ELSE IF ContainsAny(error, critical_keywords) THEN "stop"
    ELSE "continue"

\* LinkedInOptimizerWorkflow._should_continue: "continue" or "stop"
should_continue(error) ==
    IF error = <<>> THEN "continue"
    ELSE IF \E lowered \in {Lower(error)} : ContainsAny(lowered, critical_keywords)
    THEN "stop"
    ELSE "continue"

\* the edges of _build_workflow: the node that follows `node`
NextNode(node, error) ==
    CASE node = "collect_profile" ->
           IF should_continue(error) = "continue" THEN "analyze_profile"
           ELSE "compile_results"
      [] node = "analyze_profile" ->
           IF should_continue(error) = "continue" THEN "generate_content"
           ELSE "compile_results"
      [] node = "generate_content" -> "compile_results"
      [] node = "compile_results" -> "END"

\* WorkflowState as run_optimization builds it (lines 633-646)
InitialState(pdf_path, pdf_bytes, target_role, req_id) ==
    [pdf_path |-> pdf_path,
     pdf_bytes |-> pdf_bytes,
     target_role |-> target_role,
     profile_data |-> JNull,
     analysis_results |-> JNull,
     content_results |-> JNull,
     final_results |-> JNull,
     error |-> <<>>,
     status |-> <<"Starting LinkedIn Profile optimization...">>,
     request_id |-> req_id,
     api_key |-> NONE,
     step_timings |-> <<>>]

\* what a node hands back: the state it returns, the table after its
\* storage calls, the collaborator calls it made, and the records it
\* assigned to state["final_results"] (none, but for the compiler)
NodeResult(state, table, calls) ==
    [state |-> state, table |-> table, calls |-> calls, assigned |-> <<>>]

\* the node result of a compiler branch that ends with the assignment of
\* state["final_results"], `earlier` being what the node assigned before
Assigning(earlier, node_result) ==
    CHOOSE out \in
      {[made EXCEPT !.assigned = earlier \o <<made.state.final_results>>]
         : made \in {node_result}} : TRUE

\* the except branch writing a progress record that leaves str(e) out
NodeFailed_without_message(state, table, enabled, now, o, prefix, status, step_name, exc, calls) ==
    NodeResult([state EXCEPT !.error = <<prefix>> \o exc, !.status = <<status>>],
               save_step_progress(table, enabled, now, state.request_id, step_name,
                                  [duration |-> o.step_time, error |-> <<>>],
                                  "failed", o.db).table,
               calls)

\* the `except Exception as e` of a processing node: error and status are
\* set and a "failed" progress record carrying str(e) is written
NodeFailed(state, table, enabled, now, o, prefix, status, step_name, exc, calls) ==
    NodeResult([state EXCEPT !.error = <<prefix>> \o exc, !.status = <<status>>],
               save_step_progress(table, enabled, now, state.request_id, step_name,
                                  [duration |-> o.step_time, error |-> exc],
                                  "failed", o.db).table,
               calls)

\* LinkedInOptimizerWorkflow._collect_profile_node
collect_profile_node(state, table, enabled, now, o) ==
    LET agent ==
          IF IsSet(state.pdf_bytes)
          THEN extract_profile_data_from_bytes("collect_profile", o.extract, o.llm)
          ELSE IF IsSet(state.pdf_path)
          THEN extract_profile_data("collect_profile",
                                    <<state.pdf_path, state.request_id>>,
                                    o.extract, o.llm)
          ELSE Outcome(Raise(<<"No PDF data provided (neither path nor bytes)">>), <<>>)
    IN IF agent.res.ok
       THEN LET profile_data == agent.res.val
                sections == DOMAIN profile_data.o
            IN NodeResult(
                 [state EXCEPT !.profile_data = profile_data,
                               !.status = <<"Profile data extracted successfully">>,
                               !.step_timings = DictSet(@, "profile_collection", o.step_time)],
                 save_step_progress(table, enabled, now, state.request_id,
                     "profile_extraction",
                     [duration |-> o.step_time,
                      sections_extracted |-> sections,
                      data_quality |-> IF Cardinality(sections) > 3 THEN "good" ELSE "limited"],
                     "processing", o.db).table,
                 agent.calls)
       ELSE NodeFailed(state, table, enabled, now, o, LitCollection,
                       "Failed to extract profile data", "profile_extraction",
                       agent.res.exc, agent.calls)

\* the analyzer node without its check of state.error: it goes on to
\* profile_data, missing after a failed collection, and records its own error
analyze_profile_node_unguarded(state, table, enabled, now, o) ==
    NodeFailed(state, table, enabled, now, o, LitAnalysis,
               "Failed to analyze profile", "profile_analysis",
               <<"No profile data available for analysis">>, <<>>)

\* LinkedInOptimizerWorkflow._analyze_profile_node
analyze_profile_node(state, table, enabled, now, o) ==
    IF state.error # <<>> THEN NodeResult(state, table, <<>>)
    ELSE IF ~Truthy(state.profile_data)
    THEN NodeFailed(state, table, enabled, now, o, LitAnalysis,
                    "Failed to analyze profile", "profile_analysis",
                    <<"No profile data available for analysis">>, <<>>)
    ELSE
      LET agent == analyze_profile("analyze_profile", state.profile_data, o.llm)
      IN IF ~agent.res.ok
         THEN NodeFailed(state, table, enabled, now, o, LitAnalysis,
                         "Failed to analyze profile", "profile_analysis",
                         agent.res.exc, agent.calls)
         ELSE
           LET analysis_results == agent.res.val
               done == [state EXCEPT !.analysis_results = analysis_results,
                                     !.status = <<"Profile analysis completed">>,
                                     !.step_timings = DictSet(@, "profile_analysis", o.step_time)]
               strengths == Get(analysis_results, "strengths", JList(<<>>))
               improvements == Get(analysis_results, "areas_for_improvement", JList(<<>>))
           IN IF PyLen(strengths) < 0 \/ PyLen(improvements) < 0
              THEN \* len() of the step_data raises after the results are set
                   NodeFailed(done, table, enabled, now, o, LitAnalysis,
                              "Failed to analyze profile", "profile_analysis",
                              TypeErrorText, agent.calls)
              ELSE NodeResult(done,
                     save_step_progress(table, enabled, now, state.request_id,
                         "profile_analysis",
                         [duration |-> o.step_time,
                          overall_score |-> Get(analysis_results, "overall_score", JNum(0)),
                          strengths_count |-> PyLen(strengths),
                          improvements_count |-> PyLen(improvements),
                          recommendations_generated |->
                              Truthy(Get(analysis_results, "recommendations", JNull))],
                         "processing", o.db).table,
                     agent.calls)

\* the generator node without its check of state.error: it goes on to its
\* inputs, one of them missing after a failed stage, and records its own error
generate_content_node_unguarded(state, table, enabled, now, o) ==
    NodeFailed(state, table, enabled, now, o, LitContent,
               "Failed to generate content", "content_generation",
               <<"Missing required data for content generation">>, <<>>)

\* LinkedInOptimizerWorkflow._generate_content_node
generate_content_node(state, table, enabled, now, o) ==
    IF state.error # <<>> THEN NodeResult(state, table, <<>>)
    ELSE IF ~Truthy(state.profile_data) \/ ~Truthy(state.analysis_results)
    THEN NodeFailed(state, table, enabled, now, o, LitContent,
                    "Failed to generate content", "content_generation",
                    <<"Missing required data for content generation">>, <<>>)
    ELSE
      LET agent == generate_content("generate_content", state.profile_data,
                                    state.analysis_results, o.llm)
      IN IF ~agent.res.ok
         THEN NodeFailed(state, table, enabled, now, o, LitContent,
                         "Failed to generate content", "content_generation",
                         agent.res.exc, agent.calls)
         ELSE
           LET content_results == agent.res.val
           IN NodeResult(
                [state EXCEPT !.content_results = content_results,
                              !.status = <<"Content generation completed">>,
                              !.step_timings = DictSet(@, "content_generation", o.step_time)],
                save_step_progress(table, enabled, now, state.request_id,
                    "content_generation",
                    [duration |-> o.step_time,
                     content_ideas_count |->
                         PyLen(Get(content_results, "content_ideas", JList(<<>>))),
                     sample_posts_count |->
                         PyLen(Get(content_results, "sample_posts", JList(<<>>))),
                     strategy_created |->
                         Truthy(Get(content_results, "content_strategy", JNull)),
                     calendar_created |->
                         Truthy(Get(content_results, "weekly_content_calendar", JNull))],
                    "processing", o.db).table,
                agent.calls)

\* x[:n] of a parsed JSON value: a list keeps its first n items; a str is
\* sliceable too (the model's strings are short and are kept whole);
\* anything else raises TypeError
Slice(j, n) ==
    CASE j.t = "list" -> Ok(JList(SubSeq(j.l, 1, IF Len(j.l) < n THEN Len(j.l) ELSE n)))
      [] j.t = "str" -> Ok(j)
      [] OTHER -> Raise(TypeErrorText)

\* str.strip() of a JSON string; " " is the blank string of the model
Strip(s) == IF s = " " THEN "" ELSE s

SummarySections ==
    <<"personal_info", "summary", "experience", "education", "skills",
      "certifications", "recommendations">>

\* one section of _calculate_profile_completeness: "yes", "no", or "raise"
\* when the test itself raises (the method then returns 0)
SectionCompleted(section, data) ==
    IF ~Truthy(data) THEN "no"
    ELSE IF section = "personal_info"
    THEN IF data.t # "obj" THEN "raise"
         ELSE IF Truthy(Get(data, "name", JNull)) /\ Truthy(Get(data, "title", JNull))
              THEN "yes" ELSE "no"
    ELSE IF section = "summary"
    THEN IF data.t # "str" THEN "raise"
         ELSE IF Strip(data.s) # "" THEN "yes" ELSE "no"
    ELSE IF PyLen(data) < 0 THEN "raise"
         ELSE IF PyLen(data) > 0 THEN "yes" ELSE "no"

\* LinkedInOptimizerWorkflow._calculate_profile_completeness
calculate_profile_completeness(profile_data) ==
    IF ~Truthy(profile_data) THEN 0
    ELSE
      LET verdict(i) == SectionCompleted(SummarySections[i],
                                         Get(profile_data, SummarySections[i], JNull))
          completed == Cardinality({i \in 1..Len(SummarySections) : verdict(i) = "yes"})
      IN IF \E i \in 1..Len(SummarySections) : verdict(i) = "raise" THEN 0
         ELSE (completed * 100) \div Len(SummarySections)

\* f"Start posting {posting_frequency} to build your LinkedIn presence"
StartPosting(posting_frequency) == [t |-> "start_posting", frequency |-> posting_frequency]

FallbackActions ==
    JList(<<JStr("Review and optimize your LinkedIn profile based on the provided analysis")>>)

\* LinkedInOptimizerWorkflow._generate_recommended_actions
generate_recommended_actions(analysis, content) ==
    LET top == Slice(Get(analysis, "next_steps", JList(<<>>)), 2)
        strategy == Get(content, "content_strategy", JObj(<<>>))
    IN IF ~top.ok \/ strategy.t # "obj" THEN FallbackActions
       ELSE LET steps == IF top.val.t = "list" THEN top.val.l ELSE <<top.val>>
                frequency == Get(strategy, "posting_frequency", JNull)
                actions == IF Truthy(frequency)
                           THEN Append(steps, StartPosting(frequency)) ELSE steps
            IN JList(SubSeq(actions, 1, IF Len(actions) < 5 THEN Len(actions) ELSE 5))

\* LinkedInOptimizerWorkflow._generate_summary
generate_summary(state) ==
    LET analysis == state.analysis_results
        content == state.content_results
        strategy == Get(content, "content_strategy", JObj(<<>>))
        improvements == Slice(Get(analysis, "next_steps", JList(<<>>)), 3)
        pillars == IF strategy.t = "obj"
                   THEN Slice(Get(strategy, "content_pillars", JList(<<>>)), 3)
                   ELSE Raise(TypeErrorText)
    IN IF analysis.t # "obj" \/ content.t # "obj" \/ ~improvements.ok \/ ~pillars.ok
       THEN [error |-> <<"Error generating summary: ">> \o TypeErrorText]
       ELSE [profile_completeness |-> calculate_profile_completeness(state.profile_data),
             optimization_score |-> Get(analysis, "overall_score", JNum(0)),
             key_improvements |-> improvements.val,
             content_strategy |-> pillars.val,
             recommended_actions |-> generate_recommended_actions(analysis, content)]

\* one counter of state[key]['token_usage'], 0 when the record has none
UsageOf(record, counter) ==
    IF Truthy(record) /\ record.t = "obj" /\ Truthy(Get(record, "token_usage", JNull))
    THEN Get(Get(record, "token_usage", JNull), counter, JNum(0)).n
    ELSE 0

\* the aggregation with `=` in place of `+=`: the counters of the last
\* record that carries a token_usage
TotalTokenUsage_overwritten(state) ==
    LET last(counter) ==
          IF UsageOf(state.content_results, counter) # 0
          THEN UsageOf(state.content_results, counter)
          ELSE IF UsageOf(state.analysis_results, counter) # 0
          THEN UsageOf(state.analysis_results, counter)
          ELSE UsageOf(state.profile_data, counter)
    IN [model |-> OPENAI_MODEL,
        prompt_tokens |-> last("prompt_tokens"),
        completion_tokens |-> last("completion_tokens"),
        total_tokens |-> last("total_tokens")]

\* the token usage compile_results aggregates (lines 414-427)
TotalTokenUsage(state) ==
    LET total(counter) == UsageOf(state.profile_data, counter)
                          + UsageOf(state.analysis_results, counter)
                          + UsageOf(state.content_results, counter)
    IN [model |-> OPENAI_MODEL,
        prompt_tokens |-> total("prompt_tokens"),
        completion_tokens |-> total("completion_tokens"),
        total_tokens |-> total("total_tokens")]

\* the error message handed on as it is
UserMessage_raw(error_msg) == error_msg

\* the four canned messages of the error branch (lines 376-386)
UserMessage(error_msg) ==
    IF \E lowered \in {Lower(error_msg)} : ContainsAny(lowered, critical_keywords)
    THEN CHOOSE user_message \in
           {IF Contains(lowered, <<"a","p","i"," ","k","e","y">>)
               \/ Contains(lowered, <<"a","u","t","h","e","n","t","i","c","a","t","i","o","n">>)
            THEN <<"Invalid or missing OpenAI API key. Please check your API key and try again.">>
            ELSE IF Contains(lowered, <<"r","a","t","e","_","l","i","m","i","t">>)
                    \/ Contains(lowered, <<"q","u","o","t","a">>)
            THEN <<"API rate limit or quota exceeded. Please try again later or check your OpenAI account.">>
            ELSE IF Contains(lowered, <<"b","i","l","l","i","n","g">>)
            THEN <<"OpenAI billing issue. Please check your OpenAI account billing status.">>
            ELSE <<"Authentication or permission error. Please check your OpenAI API key.">>
              : lowered \in {Lower(error_msg)}} : TRUE
    ELSE error_msg

\* the error branch with a final_results that carries no message
CompileErrorBranch_without_message(state, table, enabled, now, o) ==
    NodeResult(
      [state EXCEPT !.final_results =
         [success |-> FALSE,
          status |-> state.status,
          profile_data |-> state.profile_data,
          analysis_results |-> state.analysis_results,
          content_results |-> state.content_results,
          step_timings |-> state.step_timings]],
      save_step_progress(table, enabled, now, state.request_id,
          "optimization_completed",
          [error |-> state.error, is_critical |-> FALSE, original_error |-> state.error],
          "failed", o.db).table,
      <<>>)

\* the error branch of _compile_results_node (lines 361-410)
CompileErrorBranch(state, table, enabled, now, o) ==
    LET error_msg == state.error
    IN CHOOSE out \in
         {Assigning(<<>>, NodeResult(
            [state EXCEPT !.final_results =
               [success |-> FALSE,
                error |-> local.user_message,
                status |-> state.status,
                profile_data |-> state.profile_data,
                analysis_results |-> state.analysis_results,
                content_results |-> state.content_results,
                step_timings |-> state.step_timings]],
            save_step_progress(table, enabled, now, state.request_id,
                "optimization_completed",
                [error |-> local.user_message, is_critical |-> local.is_critical,
                 original_error |-> error_msg],
                "failed", o.db).table,
            <<>>))
          : local \in
              {[is_critical |-> \E lowered \in {Lower(error_msg)} :
                                  ContainsAny(lowered, critical_keywords),
                user_message |-> UserMessage(error_msg)]}} : TRUE

\* the `except Exception as e` of _compile_results_node (lines 513-536)
CompileFailed(state, table, enabled, now, o, exc) ==
    LET error == <<LitCompile>> \o exc
        status == <<"Failed to compile results">>
        \* the try block may have assigned final_results (line 444) before
        \* it raised
        earlier == IF state.final_results # JNull THEN <<state.final_results>> ELSE <<>>
    IN Assigning(earlier, NodeResult(
         [state EXCEPT !.error = error,
                       !.status = status,
                       !.final_results =
                          [success |-> FALSE,
                           error |-> error,
                           status |-> status,
                           step_timings |-> state.step_timings,
                           storage_saved |-> FALSE]],
         save_step_progress(table, enabled, now, state.request_id,
             "optimization_completed",
             [duration |-> o.step_time, error |-> exc, success |-> FALSE],
             "failed", o.db).table,
         <<>>))

AttributeErrorText == <<"AttributeError">>

\* the sections of ProfileAnalyzerAgent.calculate_profile_completeness, in
\* the order of its `sections` dict
AnalyzerSections ==
    <<"personal_info", "summary", "experience", "education", "skills",
      "certifications", "recommendations", "languages", "volunteer_experience",
      "publications_projects">>

\* every section weighing the same
SectionWeight_uniform(section) == 10

\* sections[section]
SectionWeight(section) ==
    CASE section = "personal_info" -> 20
      [] section = "summary" -> 15
      [] section = "experience" -> 20
      [] section = "education" -> 10
      [] section = "skills" -> 10
      [] section = "certifications" -> 5
      [] section = "recommendations" -> 10
      [] section = "languages" -> 5
      [] section = "volunteer_experience" -> 3
      [] section = "publications_projects" -> 2

\* is_complete of one section (lines 243-252): "yes", "no", or "raise"
\* when data.strip() or len(data) raises
IsComplete(section, data) ==
    IF section = "personal_info"
    THEN IF Truthy(data) /\ data.t = "obj"
            /\ Truthy(Get(data, "name", JNull)) /\ Truthy(Get(data, "title", JNull))
         THEN "yes" ELSE "no"
    ELSE IF ~Truthy(data) THEN "no"
    ELSE IF section = "summary"
    THEN IF data.t # "str" THEN "raise"
         ELSE IF Strip(data.s) # "" THEN "yes" ELSE "no"
    ELSE IF PyLen(data) < 0 THEN "raise"
         ELSE IF PyLen(data) > 0 THEN "yes" ELSE "no"

\* the items of seq that are in S, in the order of seq
RECURSIVE InOrder(_, _)
InOrder(seq, S) ==
    IF seq = <<>> THEN <<>>
    ELSE (IF Head(seq) \in S THEN <<Head(seq)>> ELSE <<>>) \o InOrder(Tail(seq), S)

\* sum of the weights of the sections of seq
RECURSIVE TotalWeight(_)
TotalWeight(seq) ==
    IF seq = <<>> THEN 0 ELSE SectionWeight(Head(seq)) + TotalWeight(Tail(seq))

\* f"Complete the {section} section to improve your profile"
CompleteThe(section) == [t |-> "complete_the", section |-> section]

\* ProfileAnalyzerAgent.calculate_profile_completeness
analyzer_calculate_profile_completeness(profile_data) ==
    IF profile_data.t # "obj" THEN Raise(AttributeErrorText)
    ELSE
      LET verdict(section) == IsComplete(section, Get(profile_data, section, JNull))
          all == {AnalyzerSections[i] : i \in 1..Len(AnalyzerSections)}
          completed_sections == InOrder(AnalyzerSections, {x \in all : verdict(x) = "yes"})
          missing_sections == InOrder(AnalyzerSections, {x \in all : verdict(x) = "no"})
      IN IF \E x \in all : verdict(x) = "raise" THEN Raise(TypeErrorText)
         ELSE Ok([completeness_score |-> TotalWeight(completed_sections),
                  completed_sections |-> completed_sections,
                  missing_sections |-> missing_sections,
                  recommendations |-> [i \in 1..Len(missing_sections) |->
                                         CompleteThe(missing_sections[i])]])

ZeroDivisionErrorText == <<"float division by zero">>

\* len(pdf_bytes)
PdfSize(pdf_bytes) == IF IsSet(pdf_bytes) THEN 4 ELSE 0

\* final_results when a result that could not be saved is turned into a
\* failure
StoredResult_fatal(final_results, save_success, request_id) ==
    IF save_success
    THEN [optimization_id |-> request_id, storage_saved |-> TRUE] @@ final_results
    ELSE [success |-> FALSE,
          error |-> <<"Failed to save results">>,
          status |-> <<"Failed to compile results">>,
          storage_saved |-> FALSE]

\* final_results once the attempt to save it has returned (lines 481-495):
\* a result that could not be saved is flagged and returned all the same
StoredResult(final_results, save_success, request_id) ==
    IF save_success
    THEN [optimization_id |-> request_id, storage_saved |-> TRUE] @@ final_results
    ELSE [storage_saved |-> FALSE] @@ final_results

\* the end of the success branch (lines 461-511): final_results is saved,
\* flagged with the outcome, and the completion progress record is written
SaveAndFinish(state, table, enabled, now, o, total_time) ==
    LET request_metadata ==
          [target_role |-> state.target_role,
           processing_time |-> total_time,
           step_timings |-> state.step_timings,
           file_size |-> IF IsSet(state.pdf_bytes)
                         THEN JNum(PdfSize(state.pdf_bytes)) ELSE JNull]
    IN CHOOSE out \in
         {LET stored == StoredResult(state.final_results, saved.ok, state.request_id)
          IN [NodeResult([state EXCEPT !.final_results = stored],
                        save_step_progress(saved.table, enabled, now + 1,
                            state.request_id, "optimization_completed",
                            [duration |-> o.step_time,
                             total_processing_time |-> total_time,
                             storage_saved |-> stored.storage_saved,
                             success |-> TRUE],
                            "completed", o.db).table,
                        <<>>) EXCEPT !.assigned = <<state.final_results>>]
          : saved \in {save_optimization_result(table, enabled, now, state.request_id,
                           state.final_results, request_metadata, o.save)}} : TRUE

\* a compiler that hands on what the run has and writes its completion
\* record with status "processing"
compile_results_node_processing(state, table, enabled, now, o) ==
    Assigning(<<>>, NodeResult(
      [state EXCEPT !.final_results =
         [success |-> state.error = <<>>,
          error |-> state.error,
          status |-> state.status,
          step_timings |-> state.step_timings]],
      save_step_progress(table, enabled, now, state.request_id,
          "optimization_completed", [error |-> state.error], "processing", o.db).table,
      <<>>))

\* LinkedInOptimizerWorkflow._compile_results_node
compile_results_node(state, table, enabled, now, o) ==
    IF state.error # <<>> THEN CompileErrorBranch(state, table, enabled, now, o)
    ELSE
      LET compiling == [state EXCEPT !.status = <<"Compiling final optimization report...">>]
          analysis == state.analysis_results
          content == state.content_results
      IN IF analysis.t # "obj" \/ content.t # "obj"
         THEN CompileFailed(compiling, table, enabled, now, o, AttributeErrorText)
         ELSE
           LET recommendations_count == PyLen(Get(analysis, "next_steps", JList(<<>>)))
               content_ideas_count == PyLen(Get(content, "content_ideas", JList(<<>>)))
               sample_posts_count == PyLen(Get(content, "sample_posts", JList(<<>>)))
           IN IF recommendations_count < 0 \/ content_ideas_count < 0 \/ sample_posts_count < 0
              THEN CompileFailed(compiling, table, enabled, now, o, TypeErrorText)
              ELSE
                LET \* line 450 adds to the dict that final_results["step_timings"]
                    \* refers to, unless line 449 has replaced an empty one
                    timings == DictSet(state.step_timings, "results_compilation", o.step_time)
                    final_results ==
                      [success |-> TRUE,
                       status |-> <<"LinkedIn Profile optimization completed successfully">>,
                       profile_data |-> state.profile_data,
                       analysis_results |-> analysis,
                       content_results |-> content,
                       summary |-> generate_summary(state),
                       recommendations_count |-> recommendations_count,
                       content_ideas_count |-> content_ideas_count,
                       sample_posts_count |-> sample_posts_count,
                       step_timings |-> IF state.step_timings # <<>> THEN timings ELSE <<>>,
                       token_usage |-> TotalTokenUsage(state)]
                    assigned == [compiling EXCEPT
                                   !.final_results = final_results,
                                   !.status = <<"Optimization completed successfully">>,
                                   !.step_timings = timings]
                    total_time == SumValues(timings)
                IN CHOOSE out \in
                     {IF total_time = 0
                      THEN \* duration/total_time*100 in the performance breakdown
                           CompileFailed(compiled, table, enabled, now, o,
                                         ZeroDivisionErrorText)
                      ELSE SaveAndFinish(compiled, table, enabled, now, o, total_time)
                      : compiled \in {assigned}} : TRUE

\* what run_optimization hands to its caller (lines 672-695): final_results
\* of the graph's last state; result.get("final_results", ...) of a None
\* value fails at final_results.get and ends in the top-level barrier
ReturnedResult(state) ==
    IF state.final_results = JNull
    THEN [success |-> FALSE,
          error |-> <<"Workflow execution error: ">> \o AttributeErrorText,
          status |-> <<"Critical workflow failure">>]
    ELSE state.final_results

\* ----------------------------------------------------------------- state
\* state    WorkflowState of each run_optimization invocation
\* pc       where the invocation stands: "idle" (not invoked), "start", a
\*          node of the graph, "END" (graph finished), "done" (returned)
\* visited  the nodes the graph has executed, in order
\* calls    the collaborator calls made (PDF extraction, text generation)
\* result   what run_optimization returned, JNull before
\* table    the DynamoDB table of each deployment: optimization_id -> item
\* enabled  DynamoDBStorage.enabled of each deployment
\* world    the deployment (process and table) an invocation runs in
\* clock    datetime.now() / time.time()
\* routine_call  a call of one of the agents' pure routines on its own:
\*          which routine, the value it was last given and what it returned
\* assigned the records assigned to state["final_results"] by each run, in
\*          the order of the assignments (lines 388, 444, 516)
VARIABLES state, pc, visited, calls, result, table, enabled, world, clock, routine_call, assigned

vars == <<state, pc, visited, calls, result, table, enabled, world, clock, routine_call, assigned>>

\* no routine is called on its own
NoRoutine == [routine |-> "none"]

Runs == {1, 2}

Worlds == {1, 2}

\* str(uuid.uuid4()) of main.optimize_profile, one per request
Uuid(r) == IF r = 1 THEN "req-1" ELSE "req-2"

\* req_id = request_id or "unknown" (line 626)
ReqId(request_id) == IF IsSet(request_id) THEN request_id ELSE "unknown"

\* the (pdf_path, pdf_bytes) pairs a caller passes: each of them None, empty
\* or given
PdfInputs ==
    {<<NONE, NONE>>, <<"", "">>, <<NONE, "%PDF">>, <<"profile.pdf", NONE>>,
     <<"profile.pdf", "">>, <<"profile.pdf", "%PDF">>}

\* the state right after the storage singleton and the WorkflowState of
\* each invocation are built
Setup(args, invoked, worlds, storage_enabled) ==
    /\ state = [r \in Runs |-> InitialState(args[r].pdf_path, args[r].pdf_bytes,
                                            NONE, ReqId(args[r].request_id))]
    /\ pc = [r \in Runs |-> IF r \in invoked THEN "start" ELSE "idle"]
    /\ visited = [r \in Runs |-> <<>>]
    /\ calls = [r \in Runs |-> <<>>]
    /\ result = [r \in Runs |-> JNull]
    /\ table = [w \in Worlds |-> <<>>]
    /\ enabled = storage_enabled
    /\ world = worlds
    /\ clock = 1
    /\ routine_call = NoRoutine
    /\ assigned = [r \in Runs |-> <<>>]

Args(pdf_path, pdf_bytes, request_id) ==
    [pdf_path |-> pdf_path, pdf_bytes |-> pdf_bytes, request_id |-> request_id]

\* the choices a step draws its collaborator outcomes from, for the runs R
\* that take the step
Full(R) ==
    [extract |-> ExtractOutcomes,
     profile |-> ProfileReplies \cup LLMFailures,
     analysis |-> AnalysisReplies \cup LLMFailures,
     content |-> ContentReplies \cup LLMFailures,
     durations |-> Durations,
     db |-> [R -> ClientOutcomes],
     save |-> [R -> {"ok", "fail"}],
     written |-> BOOLEAN]

\* the run that takes the step in deployment w
RunIn(R, w) == CHOOSE r \in R : world[r] = w

\* line 123 assigns state["status"] inside the conditional edge; whether
\* LangGraph keeps a write made by an edge function is `written`
Routed(node, s, written) ==
    IF node \in {"collect_profile", "analyze_profile"}
       /\ should_continue(s.error) = "stop" /\ written
    THEN [s EXCEPT !.status = <<"Stopped due to critical error">>]
    ELSE s

\* the runs R execute `node`, done[r] being what the node does for run r
Apply(R, node, done, written) ==
    /\ \A r \in R : pc[r] = node
    /\ \E res \in {done} :
         /\ state' = [r \in Runs |-> IF r \in R THEN Routed(node, res[r].state, written)
                                     ELSE state[r]]
         /\ table' = [w \in Worlds |-> IF \E r \in R : world[r] = w
                                       THEN res[RunIn(R, w)].table ELSE table[w]]
         /\ calls' = [r \in Runs |-> IF r \in R THEN calls[r] \o res[r].calls ELSE calls[r]]
         /\ pc' = [r \in Runs |-> IF r \in R THEN NextNode(node, res[r].state.error)
                                  ELSE pc[r]]
         /\ assigned' = [r \in Runs |-> IF r \in R THEN assigned[r] \o res[r].assigned
                                        ELSE assigned[r]]
    /\ visited' = [r \in Runs |-> IF r \in R THEN Append(visited[r], node) ELSE visited[r]]
    /\ clock' = clock + 2
    /\ UNCHANGED <<result, enabled, world, routine_call>>

\* run_optimization up to workflow.ainvoke (lines 626-670): the first
\* progress record
StartStep(R, C) ==
    /\ \A r \in R : pc[r] = "start"
    /\ \E db \in C.db :
         table' = [w \in Worlds |->
                     IF \E r \in R : world[r] = w
                     THEN LET r == RunIn(R, w)
                          IN save_step_progress(table[w], enabled[w], clock,
                                 state[r].request_id, "optimization_started",
                                 [target_role |-> state[r].target_role,
                                  has_pdf_path |-> IsSet(state[r].pdf_path),
                                  has_pdf_bytes |-> IsSet(state[r].pdf_bytes),
                                  pdf_size |-> PdfSize(state[r].pdf_bytes)],
                                 "processing", db[r]).table
                     ELSE table[w]]
    /\ pc' = [r \in Runs |-> IF r \in R THEN "collect_profile" ELSE pc[r]]
    /\ clock' = clock + 2
    /\ UNCHANGED <<state, visited, calls, result, enabled, world, routine_call, assigned>>

CollectStep(R, C) ==
    \E ex \in C.extract, llm \in C.profile, d \in C.durations, db \in C.db, w \in C.written :
       Apply(R, "collect_profile",
             [r \in R |-> collect_profile_node(state[r], table[world[r]], enabled[world[r]], clock,
                          [extract |-> ex, llm |-> llm, step_time |-> d, db |-> db[r]])],
             w)

AnalyzeStep(R, C) ==
    \E llm \in C.analysis, d \in C.durations, db \in C.db, w \in C.written :
       Apply(R, "analyze_profile",
             [r \in R |-> analyze_profile_node(state[r], table[world[r]], enabled[world[r]], clock,
                          [llm |-> llm, step_time |-> d, db |-> db[r]])],
             w)

GenerateStep(R, C) ==
    \E llm \in C.content, d \in C.durations, db \in C.db :
       Apply(R, "generate_content",
             [r \in R |-> generate_content_node(state[r], table[world[r]], enabled[world[r]], clock,
                          [llm |-> llm, step_time |-> d, db |-> db[r]])],
             FALSE)

CompileStep(R, C) ==
    \E d \in C.durations, save \in C.save, db \in C.db :
       Apply(R, "compile_results",
             [r \in R |-> compile_results_node(state[r], table[world[r]], enabled[world[r]], clock,
                          [step_time |-> d, save |-> save[r], db |-> db[r]])],
             FALSE)

\* run_optimization from the return of workflow.ainvoke (lines 672-695)
ReturnStep(R) ==
    /\ \A r \in R : pc[r] = "END"
    /\ result' = [r \in Runs |-> IF r \in R THEN ReturnedResult(state[r]) ELSE result[r]]
    /\ pc' = [r \in Runs |-> IF r \in R THEN "done" ELSE pc[r]]
    /\ UNCHANGED <<state, visited, calls, table, enabled, world, clock, routine_call, assigned>>

\* ------------------------------------------- one invocation (Spec)
Init ==
    \E pdf \in PdfInputs, storage_enabled \in BOOLEAN :
       Setup([r \in Runs |-> Args(pdf[1], pdf[2], Uuid(r))], {1},
             [r \in Runs |-> 1], [w \in Worlds |-> storage_enabled])

RunOptimization(r) == StartStep({r}, Full({r}))

CollectProfile(r) == CollectStep({r}, Full({r}))

AnalyzeProfile(r) == AnalyzeStep({r}, Full({r}))

GenerateContent(r) == GenerateStep({r}, Full({r}))

CompileResults(r) == CompileStep({r}, Full({r}))

Return(r) == ReturnStep({r})

Next ==
    \E r \in Runs :
       \/ RunOptimization(r)
       \/ CollectProfile(r)
       \/ AnalyzeProfile(r)
       \/ GenerateContent(r)
       \/ CompileResults(r)
       \/ Return(r)

Spec == Init /\ [][Next]_vars

\* the asyncio task of an invocation is always resumed
FairSpec == Spec /\ WF_vars(Next)

\* ------------------- one invocation with a working store (StoreSpec)
\* the store is enabled and every call to the DynamoDB client succeeds
WorkingStore(R) ==
    [Full(R) EXCEPT !.db = {[r \in R |-> "ok"]}, !.save = {[r \in R |-> "ok"]}]

StoreInit ==
    \E pdf \in PdfInputs, request_id \in {NONE, Uuid(1)} :
       Setup([r \in Runs |-> Args(pdf[1], pdf[2], request_id)], {1},
             [r \in Runs |-> 1], [w \in Worlds |-> TRUE])

StoreRunOptimization(r) == StartStep({r}, WorkingStore({r}))

StoreCollectProfile(r) == CollectStep({r}, WorkingStore({r}))

StoreAnalyzeProfile(r) == AnalyzeStep({r}, WorkingStore({r}))

StoreGenerateContent(r) == GenerateStep({r}, WorkingStore({r}))

StoreCompileResults(r) == CompileStep({r}, WorkingStore({r}))

StoreReturn(r) == ReturnStep({r})

StoreNext ==
    \E r \in Runs :
       \/ StoreRunOptimization(r)
       \/ StoreCollectProfile(r)
       \/ StoreAnalyzeProfile(r)
       \/ StoreGenerateContent(r)
       \/ StoreCompileResults(r)
       \/ StoreReturn(r)

StoreSpec == StoreInit /\ [][StoreNext]_vars

\* ----------- the same invocation in two deployments (TwinSpec)
\* Run 1 has a working store.  Run 2 gets the same arguments and meets the
\* same extraction results, the same replies and the same clock readings,
\* but its store is disabled or fails at any of its calls.
TwinChoices ==
    [Full(Runs) EXCEPT !.db = {db \in [Runs -> ClientOutcomes] : db[1] = "ok"},
                       !.save = {save \in [Runs -> {"ok", "fail"}] : save[1] = "ok"}]

TwinInit ==
    \E pdf \in PdfInputs, storage_enabled \in BOOLEAN :
       Setup([r \in Runs |-> Args(pdf[1], pdf[2], Uuid(1))], Runs,
             [r \in Runs |-> r], [w \in Worlds |-> w = 1 \/ storage_enabled])

TwinRunOptimization == StartStep(Runs, TwinChoices)

TwinCollectProfile == CollectStep(Runs, TwinChoices)

TwinAnalyzeProfile == AnalyzeStep(Runs, TwinChoices)

TwinGenerateContent == GenerateStep(Runs, TwinChoices)

TwinCompileResults == CompileStep(Runs, TwinChoices)

TwinReturn == ReturnStep(Runs)

TwinNext ==
    \/ TwinRunOptimization
    \/ TwinCollectProfile
    \/ TwinAnalyzeProfile
    \/ TwinGenerateContent
    \/ TwinCompileResults
    \/ TwinReturn

TwinSpec == TwinInit /\ [][TwinNext]_vars

\* ------- two invocations in one event loop (ConcurrentSpec)
\* Both coroutines run in one process against one table.  A node gives up
\* the event loop only at its await of the text generator, before it
\* touches the store, and the storage methods contain no await that
\* suspends: the store sees the nodes of the two runs in some interleaving.
\* The collaborators answer; each caller passes a request_id or none.
Answering(R) ==
    [extract |-> {"text"},
     profile |-> {Reply(ProfileFull, SomeUsage), Raises(MsgTimeout)},
     analysis |-> {Reply(AnalysisFull, SomeUsage)},
     content |-> {Reply(ContentFull, SomeUsage)},
     durations |-> {MaxDuration},
     db |-> {[r \in R |-> "ok"]},
     save |-> {[r \in R |-> "ok"]},
     written |-> {FALSE}]

ConcurrentInit ==
    \E supplied \in SUBSET Runs :
       Setup([r \in Runs |-> Args(NONE, "%PDF", IF r \in supplied THEN Uuid(r) ELSE NONE)],
             Runs, [r \in Runs |-> 1], [w \in Worlds |-> TRUE])

ConcurrentRunOptimization(r) == StartStep({r}, Answering({r}))

ConcurrentCollectProfile(r) == CollectStep({r}, Answering({r}))

ConcurrentAnalyzeProfile(r) == AnalyzeStep({r}, Answering({r}))

ConcurrentGenerateContent(r) == GenerateStep({r}, Answering({r}))

ConcurrentCompileResults(r) == CompileStep({r}, Answering({r}))

ConcurrentReturn(r) == ReturnStep({r})

ConcurrentNext ==
    \E r \in Runs :
       \/ ConcurrentRunOptimization(r)
       \/ ConcurrentCollectProfile(r)
       \/ ConcurrentAnalyzeProfile(r)
       \/ ConcurrentGenerateContent(r)
       \/ ConcurrentCompileResults(r)
       \/ ConcurrentReturn(r)

ConcurrentSpec == ConcurrentInit /\ [][ConcurrentNext]_vars

\* ---------- one invocation whose text generator fails (ErrorSpec)
\* The PDF has text and the store works; each text-generator call returns a
\* well-formed reply or raises one of KeywordErrors.
Erring(R) ==
    [extract |-> {"text"},
     profile |-> {Reply(ProfileFull, SomeUsage)} \cup {Raises(m) : m \in KeywordErrors},
     analysis |-> {Reply(AnalysisFull, SomeUsage)} \cup {Raises(m) : m \in KeywordErrors},
     content |-> {Reply(ContentFull, SomeUsage)} \cup {Raises(m) : m \in KeywordErrors},
     durations |-> {MaxDuration},
     db |-> {[r \in R |-> "ok"]},
     save |-> {[r \in R |-> "ok"]},
     written |-> BOOLEAN]

ErrorInit ==
    Setup([r \in Runs |-> Args(NONE, "%PDF", Uuid(r))], {1},
          [r \in Runs |-> 1], [w \in Worlds |-> TRUE])

ErrorRunOptimization(r) == StartStep({r}, Erring({r}))

ErrorCollectProfile(r) == CollectStep({r}, Erring({r}))

ErrorAnalyzeProfile(r) == AnalyzeStep({r}, Erring({r}))

ErrorGenerateContent(r) == GenerateStep({r}, Erring({r}))

ErrorCompileResults(r) == CompileStep({r}, Erring({r}))

ErrorReturn(r) == ReturnStep({r})

ErrorNext ==
    \E r \in Runs :
       \/ ErrorRunOptimization(r)
       \/ ErrorCollectProfile(r)
       \/ ErrorAnalyzeProfile(r)
       \/ ErrorGenerateContent(r)
       \/ ErrorCompileResults(r)
       \/ ErrorReturn(r)

ErrorSpec == ErrorInit /\ [][ErrorNext]_vars

\* ------ one invocation whose replies report their usage (UsageSpec)
\* response_metadata['token_usage'] of a reply: every counter, none, or
\* some of them
Usages ==
    {SomeUsage, NoUsage,
     [prompt_tokens |-> 4],
     [prompt_tokens |-> 5, completion_tokens |-> 2, total_tokens |-> 7]}

\* The PDF has text, every reply is well-formed and the store works; the
\* replies differ in the usage they report.
Metered(R) ==
    [extract |-> {"text"},
     profile |-> {Reply(ProfileFull, u) : u \in Usages},
     analysis |-> {Reply(AnalysisFull, u) : u \in Usages},
     content |-> {Reply(ContentFull, u) : u \in Usages},
     durations |-> {MaxDuration},
     db |-> {[r \in R |-> "ok"]},
     save |-> {[r \in R |-> "ok"]},
     written |-> {FALSE}]

UsageInit ==
    Setup([r \in Runs |-> Args(NONE, "%PDF", Uuid(r))], {1},
          [r \in Runs |-> 1], [w \in Worlds |-> TRUE])

UsageRunOptimization(r) == StartStep({r}, Metered({r}))

UsageCollectProfile(r) == CollectStep({r}, Metered({r}))

UsageAnalyzeProfile(r) == AnalyzeStep({r}, Metered({r}))

UsageGenerateContent(r) == GenerateStep({r}, Metered({r}))

UsageCompileResults(r) == CompileStep({r}, Metered({r}))

UsageReturn(r) == ReturnStep({r})

UsageNext ==
    \E r \in Runs :
       \/ UsageRunOptimization(r)
       \/ UsageCollectProfile(r)
       \/ UsageAnalyzeProfile(r)
       \/ UsageGenerateContent(r)
       \/ UsageCompileResults(r)
       \/ UsageReturn(r)

UsageSpec == UsageInit /\ [][UsageNext]_vars

\* ------------- the agents' routines called on their own (RoutineSpec)
\* A parsed reply that has every expected key, and the replies that lack
\* some of them: any subset of the top-level keys, or any subset of the keys
\* of one nested record.
Restrict(j, keys) == JObj([k \in (DOMAIN j.o) \cap keys |-> j.o[k]])

PersonalInfoComplete ==
    JObj([name |-> JStr("Ann"), title |-> JStr("Engineer"), location |-> JStr("Oslo"),
          email |-> JStr("a@b.c"), phone |-> JStr("1"), linkedin_url |-> JStr("in/ann")])

ProfileComplete ==
    JObj([k \in ProfileRequiredKeys |->
            IF k = "personal_info" THEN PersonalInfoComplete
            ELSE IF k = "summary" THEN JStr("text")
            ELSE JList(<<JStr(k)>>)])

ProfileInputs ==
    {Restrict(ProfileComplete, keys) : keys \in SUBSET ProfileRequiredKeys}
    \cup {JObj([ProfileComplete.o EXCEPT !["personal_info"] = Restrict(@, keys)])
            : keys \in SUBSET PersonalInfoKeys}

TripleComplete ==
    JObj([current |-> JStr("c"), suggested |-> JStr("s"), reasoning |-> JStr("r")])

RecommendationsComplete ==
    JObj([k \in {"headline", "summary"} \cup RecommendationListKeys |->
            IF k \in {"headline", "summary"} THEN TripleComplete ELSE JList(<<JStr(k)>>)])

AnalysisComplete ==
    JObj([k \in AnalysisRequiredKeys |->
            IF k = "overall_score" THEN JNum(42)
            ELSE IF k = "recommendations" THEN RecommendationsComplete
            ELSE IF k = "industry_insights" THEN JStr("insight")
            ELSE JList(<<JStr(k)>>)])

\* the overall_score values a reply can hold: numbers below, inside and
\* above the range, and values that are no number
ScoreInputs ==
    {JNum(0 - 5), JNum(0), JNum(42), JNum(100), JNum(150), JStr("bad"), JNull,
     JList(<<>>), JBool(TRUE), JBool(FALSE)}

AnalysisInputs ==
    {Restrict(AnalysisComplete, keys) : keys \in SUBSET AnalysisRequiredKeys}
    \cup {JObj([AnalysisComplete.o EXCEPT !["recommendations"] = Restrict(@, keys)])
            : keys \in SUBSET ({"headline", "summary"} \cup RecommendationListKeys)}
    \cup {JObj([AnalysisComplete.o EXCEPT !["overall_score"] = score])
            : score \in ScoreInputs}

StrategyComplete ==
    JObj([k \in StrategyKeys |->
            IF k = "posting_frequency" THEN JStr("weekly") ELSE JList(<<JStr(k)>>)])

IdeaComplete ==
    JObj([k \in IdeaKeys |-> IF k = "hashtags" THEN JList(<<JStr("#a")>>) ELSE JStr(k)])

PostComplete ==
    JObj([k \in PostKeys |->
            IF k \in {"hashtags", "engagement_hooks"} THEN JList(<<JStr("#a")>>) ELSE JStr(k)])

CalendarComplete == JObj([k \in CalendarKeys |-> JStr(k)])

ContentComplete ==
    JObj([content_strategy |-> StrategyComplete,
          content_ideas |-> JList(<<IdeaComplete>>),
          sample_posts |-> JList(<<PostComplete>>),
          weekly_content_calendar |-> JList(<<CalendarComplete>>)])

ContentInputs ==
    {Restrict(ContentComplete, keys) : keys \in SUBSET ContentRequiredKeys}
    \cup {JObj([ContentComplete.o EXCEPT !["content_strategy"] = Restrict(@, keys)])
            : keys \in SUBSET StrategyKeys}
    \cup {JObj([ContentComplete.o EXCEPT !["content_ideas"] =
                   JList(<<IdeaComplete, Restrict(IdeaComplete, keys)>>)])
            : keys \in SUBSET IdeaKeys}
    \cup {JObj([ContentComplete.o EXCEPT !["sample_posts"] =
                   JList(<<Restrict(PostComplete, keys)>>)])
            : keys \in SUBSET PostKeys}
    \cup {JObj([ContentComplete.o EXCEPT !["weekly_content_calendar"] =
                   JList(<<Restrict(CalendarComplete, keys)>>)])
            : keys \in SUBSET CalendarKeys}

SinglePostComplete ==
    JObj([k \in SinglePostKeys |->
            IF k \in {"hashtags", "engagement_hooks"} THEN JList(<<JStr("#a")>>) ELSE JStr(k)])

SinglePostInputs == {Restrict(SinglePostComplete, keys) : keys \in SUBSET SinglePostKeys}

\* the profile with only the name and the title filled in
OnlyNameAndTitle ==
    ValidateProfileData(JObj([personal_info |-> JObj([name |-> JStr("Ann"),
                                                       title |-> JStr("Engineer")])])).val

\* profile records: the normalized replies, and records whose name is empty
\* or whose summary is blank
CompletenessInputs ==
    {ValidateProfileData(input).val : input \in ProfileInputs}
    \cup {OnlyNameAndTitle,
          JObj([ProfileComplete.o EXCEPT !["summary"] = JStr(" ")]),
          JObj([ProfileComplete.o EXCEPT !["personal_info"] =
                  JObj([PersonalInfoComplete.o EXCEPT !["name"] = JStr("")])])}

\* a routine about to be called on `input`
Given(routine, input) ==
    [routine |-> routine, input |-> input, previous |-> JNull, value |-> Ok(input),
     applied |-> 0]

RoutineInit ==
    /\ state = [r \in Runs |-> InitialState(NONE, NONE, NONE, ReqId(NONE))]
    /\ pc = [r \in Runs |-> "idle"]
    /\ visited = [r \in Runs |-> <<>>]
    /\ calls = [r \in Runs |-> <<>>]
    /\ result = [r \in Runs |-> JNull]
    /\ table = [w \in Worlds |-> <<>>]
    /\ enabled = [w \in Worlds |-> FALSE]
    /\ world = [r \in Runs |-> 1]
    /\ clock = 1
    /\ assigned = [r \in Runs |-> <<>>]
    /\ routine_call \in
         {Given("_validate_profile_data", input) : input \in ProfileInputs}
         \cup {Given("_validate_analysis_results", input) : input \in AnalysisInputs}
         \cup {Given("_validate_content_results", input) : input \in ContentInputs}
         \cup {Given("_validate_single_post", input) : input \in SinglePostInputs}
         \cup {Given("calculate_profile_completeness", input) : input \in CompletenessInputs}

\* `routine` is applied to the value at hand and returns or raises `out`
Applied(routine, out) ==
    /\ routine_call.routine = routine
    /\ routine_call.applied < MaxApplications
    /\ routine_call.value.ok
    /\ routine_call' = [routine_call EXCEPT !.previous = routine_call.value.val,
                                            !.value = out,
                                            !.applied = @ + 1]
    /\ UNCHANGED <<state, pc, visited, calls, result, table, enabled, world, clock, assigned>>

NormalizeProfile ==
    Applied("_validate_profile_data", ValidateProfileData(routine_call.value.val))

NormalizeAnalysis ==
    Applied("_validate_analysis_results", ValidateAnalysisResults(routine_call.value.val))

NormalizeContent ==
    Applied("_validate_content_results", ValidateContentResults(routine_call.value.val))

NormalizeSinglePost ==
    Applied("_validate_single_post", ValidateSinglePost(routine_call.value.val))

CalculateCompleteness ==
    /\ routine_call.routine = "calculate_profile_completeness"
    /\ routine_call.applied = 0
    /\ routine_call' =
         [routine_call EXCEPT !.previous = routine_call.input,
                              !.value = analyzer_calculate_profile_completeness(routine_call.input),
                              !.applied = 1]
    /\ UNCHANGED <<state, pc, visited, calls, result, table, enabled, world, clock, assigned>>

RoutineNext ==
    \/ CalculateCompleteness
    \/ NormalizeProfile
    \/ NormalizeAnalysis
    \/ NormalizeContent
    \/ NormalizeSinglePost

RoutineSpec == RoutineInit /\ [][RoutineNext]_vars

\* ------ save_step_progress called on its own (ProgressSpec)
\* Any caller writes progress records for one optimization_id, in any
\* order of step names, each call meeting any outcome at the client.
\* calls[1] keeps the step name of every call and the bool it returned.
StoreCall(step_name, ok) ==
    [fn |-> "save_step_progress", step_name |-> step_name, ok |-> ok]

ProgressInit ==
    /\ state = [r \in Runs |-> InitialState(NONE, NONE, NONE, ReqId(Uuid(r)))]
    /\ pc = [r \in Runs |-> "idle"]
    /\ visited = [r \in Runs |-> <<>>]
    /\ calls = [r \in Runs |-> <<>>]
    /\ result = [r \in Runs |-> JNull]
    /\ table = [w \in Worlds |-> <<>>]
    /\ enabled = [w \in Worlds |-> TRUE]
    /\ world = [r \in Runs |-> 1]
    /\ clock = 1
    /\ routine_call = NoRoutine
    /\ assigned = [r \in Runs |-> <<>>]

SaveStepProgress(step_name, outcome) ==
    /\ Len(calls[1]) < MaxWrites
    /\ \E saved \in {save_step_progress(table[1], enabled[1], clock, state[1].request_id,
                                         step_name, <<>>, "processing", outcome)} :
         /\ table' = [table EXCEPT ![1] = saved.table]
         /\ calls' = [calls EXCEPT ![1] = Append(@, StoreCall(step_name, saved.ok))]
    /\ clock' = clock + 1
    /\ UNCHANGED <<state, pc, visited, result, enabled, world, routine_call, assigned>>

ProgressNext ==
    \E step_name \in {"optimization_started", "profile_extraction", "profile_analysis"},
       outcome \in ClientOutcomes :
       SaveStepProgress(step_name, outcome)

ProgressSpec == ProgressInit /\ [][ProgressNext]_vars

\* ---- the validators given a reply with a misshapen field (ShapeSpec)
\* the fields of a reply that should hold a list, as paths from the top:
\* <<key>> or <<sub-record, key>>
ListFields(routine) ==
    CASE routine = "_validate_profile_data" -> {<<k>> : k \in ProfileListKeys}
      [] routine = "_validate_analysis_results" ->
           {<<k>> : k \in {"strengths", "areas_for_improvement", "next_steps"}}
           \cup {<<"recommendations", k>> : k \in RecommendationListKeys}
      [] routine = "_validate_content_results" ->
           {<<k>> : k \in {"content_ideas", "sample_posts", "weekly_content_calendar"}}
           \cup {<<"content_strategy", k>>
                   : k \in {"best_posting_times", "content_pillars", "hashtag_strategy"}}

\* the fields that should hold a sub-record
RecordFields(routine) ==
    CASE routine = "_validate_profile_data" -> {<<"personal_info">>}
      [] routine = "_validate_analysis_results" -> {<<"recommendations">>}
      [] routine = "_validate_content_results" -> {<<"content_strategy">>}

\* the value of j at a path
At(j, path) ==
    IF Len(path) = 1 THEN j.o[path[1]] ELSE j.o[path[1]].o[path[2]]

\* j with the value at a path replaced by v
Put(j, path, v) ==
    IF Len(path) = 1 THEN JObj([j.o EXCEPT ![path[1]] = v])
    ELSE JObj([j.o EXCEPT ![path[1]] = JObj([@.o EXCEPT ![path[2]] = v])])

\* JSON values that are no list, and JSON values that are no object
NotAList == {JNull, JStr("x"), JNum(7), JObj([a |-> JNum(1)])}

NotAnObject == {JNull, JStr("x"), JNum(7), JList(<<JStr("x")>>)}

\* a complete reply with one of its list or sub-record fields misshapen
Misshapen(routine, complete) ==
    {Put(complete, path, v) : path \in ListFields(routine), v \in NotAList}
    \cup {Put(complete, path, v) : path \in RecordFields(routine), v \in NotAnObject}

ShapeInit ==
    /\ state = [r \in Runs |-> InitialState(NONE, NONE, NONE, ReqId(NONE))]
    /\ pc = [r \in Runs |-> "idle"]
    /\ visited = [r \in Runs |-> <<>>]
    /\ calls = [r \in Runs |-> <<>>]
    /\ result = [r \in Runs |-> JNull]
    /\ table = [w \in Worlds |-> <<>>]
    /\ enabled = [w \in Worlds |-> FALSE]
    /\ world = [r \in Runs |-> 1]
    /\ clock = 1
    /\ assigned = [r \in Runs |-> <<>>]
    /\ routine_call \in
         {Given("_validate_profile_data", input)
            : input \in Misshapen("_validate_profile_data", ProfileComplete)}
         \cup {Given("_validate_analysis_results", input)
                 : input \in Misshapen("_validate_analysis_results", AnalysisComplete)}
         \cup {Given("_validate_content_results", input)
                 : input \in Misshapen("_validate_content_results", ContentComplete)}

ShapeNext ==
    \/ NormalizeProfile
    \/ NormalizeAnalysis
    \/ NormalizeContent

ShapeSpec == ShapeInit /\ [][ShapeNext]_vars

\* ---------------------------------------------------------------- claims
Returned(r) == pc[r] = "done"

\* the collaborator calls of run r to the function fn
CallsTo(r, fn) == {i \in 1..Len(calls[r]) : calls[r][i].fn = fn}

\* all three stages of run r have parsed and accepted their reply
AllStagesSucceeded(r) ==
    /\ state[r].profile_data # JNull
    /\ state[r].analysis_results # JNull
    /\ state[r].content_results # JNull

PipelineOrder ==
    <<"profile_collection", "profile_analysis", "content_generation", "results_compilation">>

\* C1: a run given non-blank PDF bytes whose three text-generator calls
\* return well-formed JSON returns success = true, and step_timings has
\* exactly the four stage keys, added in pipeline order.
C1_SuccessfulRun ==
    \A r \in Runs :
       (Returned(r) /\ IsSet(state[r].pdf_bytes) /\ AllStagesSucceeded(r))
       => /\ result[r].success
          /\ Keys(result[r].step_timings) = PipelineOrder

\* the error text is critical: its lower-cased form contains a keyword
Critical(error) ==
    error # <<>> /\ \E lowered \in {Lower(error)} : ContainsAny(lowered, critical_keywords)

\* C2: once collect_profile or analyze_profile has left a critical error in
\* state.error, the next node executed is compile_results: no processing
\* node is entered any more and no further collaborator call is made.
C2_CriticalErrorSkipsToCompiler ==
    [][\A r \in Runs :
         /\ (pc[r] \in {"collect_profile", "analyze_profile"} /\ pc'[r] # pc[r]
              /\ Critical(state'[r].error))
            => pc'[r] = "compile_results"
         /\ Critical(state[r].error)
            => /\ pc[r] \notin {"analyze_profile", "generate_content"}
               /\ calls'[r] = calls[r]
               /\ visited'[r] \in {visited[r], Append(visited[r], "compile_results")}]_vars

\* the analyzer's text-generator call has raised a critical error and the
\* compiler has run right after it
C2_Witness ==
    /\ pc[1] = "END"
    /\ visited[1] = <<"collect_profile", "analyze_profile", "compile_results">>
    /\ Critical(state[1].error)
    /\ calls[1][Len(calls[1])].node = "analyze_profile"

ApiKeyMessage ==
    <<"Invalid or missing OpenAI API key. Please check your API key and try again.">>

\* the first text-generator call of run r raised a text containing
\* "invalid_api_key"
FirstCallRaisedInvalidApiKey(r) ==
    \E i \in CallsTo(r, "llm.ainvoke") :
       /\ \A j \in CallsTo(r, "llm.ainvoke") : i <= j
       /\ calls[r][i].node = "collect_profile"
       /\ Contains(calls[r][i].exc, MsgInvalidApiKey)

\* the persisted record of run r, once a failure has been written to it,
\* has status "failed"
PersistedFailed(r) ==
    LET items == table[world[r]]
        id == state[r].request_id
    IN (id \in DOMAIN items /\ items[id].current_step # "optimization_started")
       => items[id].status = "failed"

\* C3: when the first-stage text-generator call raises an error containing
\* "invalid_api_key", the run returns success = false with the canned
\* API-key message, analysis_results and content_results are null, and the
\* persisted progress record has status "failed".
C3_InvalidApiKey ==
    \A r \in Runs :
       (Returned(r) /\ FirstCallRaisedInvalidApiKey(r))
       => /\ result[r].success = FALSE
          /\ result[r].error = ApiKeyMessage
          /\ result[r].analysis_results = JNull
          /\ result[r].content_results = JNull
          /\ PersistedFailed(r)

\* the record run_optimization returns: a boolean success and, when it is
\* false, a non-empty error message and a status string
WellFormedResult(res) ==
    /\ "success" \in DOMAIN res
    /\ res.success \in BOOLEAN
    /\ ~res.success => /\ "error" \in DOMAIN res
                       /\ res.error # <<>>
                       /\ "status" \in DOMAIN res
                       /\ res.status # <<>>

\* C4: under every combination of collaborator outcomes an invoked run
\* terminates, and what it returns is a record with a boolean success that
\* carries a non-empty error and a status whenever success is false.
C4_NeverRaises ==
    /\ [](\A r \in Runs : Returned(r) => WellFormedResult(result[r]))
    /\ \A r \in Runs : (pc[r] = "start") ~> Returned(r)

\* a run has returned a failure after a collaborator raised
C4_Witness ==
    /\ Returned(1)
    /\ result[1].success = FALSE
    /\ \E i \in 1..Len(calls[1]) : calls[1][i].exc # <<>>

\* res[key], null when the record has no such key
Field(res, key) == IF key \in DOMAIN res THEN res[key] ELSE JNull

\* the record res without the keys `keys`
Without(res, keys) == [k \in (DOMAIN res) \ keys |-> res[k]]

StorageKeys == {"storage_saved", "optimization_id"}

\* C5: a run whose store is disabled or fails at any of its calls returns
\* the same success value and the same profile, analysis and content
\* records as the run with a working store; a successful result differs at
\* most in storage_saved = false, without optimization_id, where the other
\* has storage_saved = true.
C5_StoreNeverFatal ==
    (Returned(1) /\ Returned(2))
    => /\ result[2].success = result[1].success
       /\ \A key \in {"profile_data", "analysis_results", "content_results"} :
             Field(result[2], key) = Field(result[1], key)
       /\ Without(result[2], StorageKeys) = Without(result[1], StorageKeys)
       /\ result[1].success
          => /\ result[1].storage_saved
             /\ result[1].optimization_id = state[1].request_id
             /\ IF result[2].storage_saved THEN result[2] = result[1]
                ELSE "optimization_id" \notin DOMAIN result[2]

\* both runs have succeeded, and nothing of the second was ever stored
C5_Witness ==
    /\ Returned(1) /\ Returned(2)
    /\ result[1].success /\ result[1].storage_saved
    /\ ~result[2].storage_saved
    /\ table[2] = <<>>

StageNames ==
    <<"optimization_started", "profile_extraction", "profile_analysis",
      "content_generation", "optimization_completed">>

PersistedSteps(item) ==
    IF "processing_steps" \in DOMAIN item THEN item["processing_steps"] ELSE <<>>

\* the persisted record of run r, <<>> when there is none
Record(r) ==
    IF state[r].request_id \in DOMAIN table[world[r]]
    THEN table[world[r]][state[r].request_id] ELSE <<>>

\* C6: every write for a request merges into its record: a stage name once
\* in processing_steps is in it in every later store state, and after a
\* successful run with a working store processing_steps lists the five
\* stages in order and step_details has an entry for each.
C6_ProgressMerges ==
    /\ [][\A w \in Worlds : \A id \in DOMAIN table[w] :
            /\ id \in DOMAIN table'[w]
            /\ \A i \in 1..Len(PersistedSteps(table[w][id])) :
                  \E j \in 1..Len(PersistedSteps(table'[w][id])) :
                     PersistedSteps(table'[w][id])[j] = PersistedSteps(table[w][id])[i]]_vars
    /\ [](\A r \in Runs :
            (Returned(r) /\ result[r].success)
            => /\ PersistedSteps(Record(r)) = StageNames
               /\ "step_details" \in DOMAIN Record(r)
               /\ DOMAIN Record(r)["step_details"] = {StageNames[i] : i \in 1..Len(StageNames)})

\* get_optimization_result(request_id) called once the run has returned
Retrieved(r) ==
    get_optimization_result(table[world[r]], enabled[world[r]], clock,
                            state[r].request_id, "ok")

\* C7 as stated: after a successful run with a working store the retrieved
\* result equals the record the run returned.
C7_RoundTrip ==
    \A r \in Runs :
       (Returned(r) /\ result[r].success) => Retrieved(r) = result[r]

\* C7, amended: the retrieved result is the record as it was saved, equal to
\* the returned one on every field but optimization_id and storage_saved,
\* which the run adds after saving; retrieval adds storage_info and
\* request_metadata.
C7_SavedRoundTrip ==
    \A r \in Runs :
       (Returned(r) /\ result[r].success)
       => /\ Retrieved(r) # JNull
          /\ Without(Retrieved(r), {"storage_info", "request_metadata"})
             = Without(result[r], StorageKeys)
          /\ StorageKeys \subseteq DOMAIN result[r]
          /\ {"storage_info", "request_metadata"} \subseteq DOMAIN Retrieved(r)
          /\ Retrieved(r)["storage_info"].optimization_id = state[r].request_id

\* a successful run has returned and its result is in the store
C7_Witness ==
    /\ Returned(1)
    /\ result[1].success /\ result[1].storage_saved
    /\ "results" \in DOMAIN Record(1)

\* C8: two concurrent runs use distinct store keys, so a step of one run
\* that writes to the store leaves the record of the other as it was.
C8_DistinctKeys ==
    [][\A r \in Runs : \A other \in Runs \ {r} :
         (pc'[r] # pc[r] /\ table' # table)
         => /\ state[r].request_id # state[other].request_id
            /\ Record(other)' = Record(other)]_vars

\* C9: a run given neither pdf_path nor pdf_bytes (each null or empty)
\* calls neither the PDF extraction nor the text generator, and returns
\* success = false.
C9_NoPdf ==
    \A r \in Runs :
       (state[r].pdf_path \in {NONE, ""} /\ state[r].pdf_bytes \in {NONE, ""})
       => /\ calls[r] = <<>>
          /\ Returned(r) => result[r].success = FALSE

\* a run given two empty values has gone through the graph and returned
C9_Witness ==
    /\ Returned(1)
    /\ state[1].pdf_path = "" /\ state[1].pdf_bytes = ""
    /\ visited[1][1] = "collect_profile"

\* C10: the collector accepts either input form: with both given only the
\* bytes extraction is called; with only pdf_path given the path extraction
\* is called and, when it returns text and the text generator returns
\* well-formed JSON, profile_data is set and no error is recorded.
C10_EitherInputAccepted ==
    \A r \in Runs :
       (pc[r] = "analyze_profile" \/ (pc[r] = "compile_results" /\ Len(visited[r]) = 1))
       => /\ (state[r].pdf_bytes = "%PDF" /\ state[r].pdf_path = "profile.pdf")
             => /\ CallsTo(r, "extract_text_from_bytes") # {}
                /\ CallsTo(r, "extract_text_from_pdf") = {}
          /\ (state[r].pdf_bytes \in {NONE, ""} /\ state[r].pdf_path = "profile.pdf")
             => /\ CallsTo(r, "extract_text_from_pdf") # {}
                /\ CallsTo(r, "extract_text_from_bytes") = {}
                /\ (/\ \E i \in CallsTo(r, "extract_text_from_pdf") :
                          calls[r][i].returned = "text"
                    /\ \E i \in CallsTo(r, "llm.ainvoke") : calls[r][i].returned = "json")
                   => (state[r].profile_data # JNull /\ state[r].error = <<>>)
CannedMessages ==
    {<<"Invalid or missing OpenAI API key. Please check your API key and try again.">>,
     <<"API rate limit or quota exceeded. Please try again later or check your OpenAI account.">>,
     <<"OpenAI billing issue. Please check your OpenAI account billing status.">>,
     <<"Authentication or permission error. Please check your OpenAI API key.">>}

RateLimitMessage ==
    <<"API rate limit or quota exceeded. Please try again later or check your OpenAI account.">>

BillingMessage ==
    <<"OpenAI billing issue. Please check your OpenAI account billing status.">>

GenericMessage ==
    <<"Authentication or permission error. Please check your OpenAI API key.">>

\* the compiler of run r has taken its error branch: state.error was set
\* by a stage before it
ErrorBranchTaken(r) ==
    /\ pc[r] \in {"END", "done"}
    /\ state[r].error # <<>>
    /\ state[r].error[1] # LitCompile

\* the text the text generator raised in the failed stage of run r
Upstream(r) == calls[r][Len(calls[r])].exc

C12_Classification ==
    [][\A r \in Runs :
         (pc[r] \in {"collect_profile", "analyze_profile"} /\ pc'[r] # pc[r]
            /\ state'[r].error # <<>>)
         => \E lowered \in {Lower(state'[r].error)} :
              /\ Len(critical_keywords) = 11
              /\ pc'[r] = "compile_results"
                 <=> \E n \in 1..Len(critical_keywords) :
                        Contains(lowered, critical_keywords[n])
              /\ Contains(lowered, critical_keywords[8]) => pc'[r] = "compile_results"
              /\ \A text \in {MsgInsufficientQuota, MsgMixedQuota, critical_keywords[8]} :
                    should_continue(text) = "stop"
              /\ should_continue(MsgTimeout) = "continue"]_vars

\* the collector's call raised "Error: Insufficient_Quota" and the run went
\* from collect_profile straight to compile_results
C12_Witness ==
    /\ pc[1] = "compile_results"
    /\ visited[1] = <<"collect_profile">>
    /\ calls[1] # <<>>
    /\ Upstream(1) = MsgMixedQuota
EmptyList == JList(<<>>)

EmptyText == JStr("")

ExpectedPersonalInfo ==
    [name |-> JNull, title |-> JNull, location |-> JNull, email |-> JNull,
     phone |-> JNull, linkedin_url |-> JNull]

ExpectedProfile ==
    [personal_info |-> JObj(ExpectedPersonalInfo), summary |-> JNull,
     experience |-> EmptyList, education |-> EmptyList, skills |-> EmptyList,
     certifications |-> EmptyList, recommendations |-> EmptyList,
     endorsements |-> EmptyList, languages |-> EmptyList,
     volunteer_experience |-> EmptyList, publications_projects |-> EmptyList]

ExpectedTriple ==
    JObj([current |-> EmptyText, suggested |-> EmptyText, reasoning |-> EmptyText])

ExpectedRecommendations ==
    [headline |-> ExpectedTriple, summary |-> ExpectedTriple,
     experience_optimization |-> EmptyList, skills_to_add |-> EmptyList,
     skills_to_emphasize |-> EmptyList, keywords_to_include |-> EmptyList,
     certifications_to_pursue |-> EmptyList]

ExpectedAnalysis ==
    [overall_score |-> JNum(0), strengths |-> EmptyList,
     areas_for_improvement |-> EmptyList, next_steps |-> EmptyList,
     recommendations |-> JObj(ExpectedRecommendations), industry_insights |-> EmptyText]

ExpectedStrategy ==
    [posting_frequency |-> EmptyText, best_posting_times |-> EmptyList,
     content_pillars |-> EmptyList, hashtag_strategy |-> EmptyList]

ExpectedContent ==
    [content_strategy |-> JObj(ExpectedStrategy), content_ideas |-> EmptyList,
     sample_posts |-> EmptyList, weekly_content_calendar |-> EmptyList]

ExpectedIdea ==
    [type |-> EmptyText, topic |-> EmptyText, objective |-> EmptyText,
     target_audience |-> EmptyText, content |-> EmptyText, hashtags |-> EmptyList,
     call_to_action |-> EmptyText]

ExpectedPost ==
    [title |-> EmptyText, content |-> EmptyText, hashtags |-> EmptyList,
     engagement_hooks |-> EmptyList]

ExpectedCalendar ==
    [day |-> EmptyText, content_type |-> EmptyText, topic |-> EmptyText,
     brief_description |-> EmptyText]

ExpectedSinglePost ==
    [title |-> EmptyText, content |-> EmptyText, hashtags |-> EmptyList,
     engagement_hooks |-> EmptyList, best_posting_time |-> EmptyText,
     expected_engagement |-> EmptyText]

\* output is the dict input with every key of `expected` that it lacks set
\* to the expected default
Completed(input, output, expected) ==
    /\ output.t = "obj"
    /\ DOMAIN output.o = (DOMAIN input.o) \cup (DOMAIN expected)
    /\ \A k \in (DOMAIN expected) \ (DOMAIN input.o) : output.o[k] = expected[k]

\* the same of the dict under `key`, when the input has one
NestedCompleted(input, output, key, expected) ==
    key \in DOMAIN input.o => Completed(input.o[key], output.o[key], expected)

\* the same of every item of the list under `key`, when the input has one
ItemsCompleted(input, output, key, expected) ==
    key \in DOMAIN input.o
    => /\ output.o[key].t = "list"
       /\ Len(output.o[key].l) = Len(input.o[key].l)
       /\ \A i \in 1..Len(input.o[key].l) :
             Completed(input.o[key].l[i], output.o[key].l[i], expected)

\* what the claim requires of the record `output` a routine made of `input`
Normalized(routine, input, output) ==
    CASE routine = "_validate_profile_data" ->
           /\ Completed(input, output, ExpectedProfile)
           /\ NestedCompleted(input, output, "personal_info", ExpectedPersonalInfo)
      [] routine = "_validate_analysis_results" ->
           /\ Completed(input, output, ExpectedAnalysis)
           /\ NestedCompleted(input, output, "recommendations", ExpectedRecommendations)
      [] routine = "_validate_content_results" ->
           /\ Completed(input, output, ExpectedContent)
           /\ NestedCompleted(input, output, "content_strategy", ExpectedStrategy)
           /\ ItemsCompleted(input, output, "content_ideas", ExpectedIdea)
           /\ ItemsCompleted(input, output, "sample_posts", ExpectedPost)
           /\ ItemsCompleted(input, output, "weekly_content_calendar", ExpectedCalendar)
      [] routine = "_validate_single_post" ->
           Completed(input, output, ExpectedSinglePost)

Validators ==
    {"_validate_profile_data", "_validate_analysis_results", "_validate_content_results",
     "_validate_single_post"}

\* C13: each of the four normalization routines, given a parsed object that
\* lacks any subset of the expected keys, returns without raising a record
\* that has every required key, the keys it lacked holding their defaults;
\* applied again to its own output it returns that output unchanged.
C13_NormalizationIdempotent ==
    (routine_call.routine \in Validators /\ routine_call.applied >= 1)
    => /\ routine_call.value.ok
       /\ Normalized(routine_call.routine, routine_call.input, routine_call.value.val)
       /\ routine_call.applied >= 2 => routine_call.value.val = routine_call.previous

\* the content routine has been applied twice to a reply that had neither
\* a content strategy nor a calendar
C13_Witness ==
    /\ routine_call.routine = "_validate_content_results"
    /\ routine_call.applied = 2
    /\ DOMAIN routine_call.input.o = {"content_ideas", "sample_posts"}
    /\ routine_call.value.ok
\* C14: after _validate_analysis_results overall_score is a number within
\* [0, 100]: 0 for a number below 0, 100 for a number above 100, the number
\* itself inside the range, and 0 for any value that is not a number.
C14_ScoreClamped ==
    (/\ routine_call.routine = "_validate_analysis_results"
     /\ routine_call.applied >= 1
     /\ "overall_score" \in DOMAIN routine_call.input.o)
    => LET given == routine_call.input.o["overall_score"]
           score == routine_call.value.val.o["overall_score"]
       IN /\ score.t = "num"
          /\ score.n >= 0 /\ score.n <= 100
          /\ given.t = "num"
             => score.n = IF given.n < 0 THEN 0 ELSE IF given.n > 100 THEN 100 ELSE given.n
          /\ given.t # "num" => score.n = 0
\* the claim's weights, 100 in total
ClaimedWeights ==
    [personal_info |-> 20, summary |-> 15, experience |-> 20, education |-> 10,
     skills |-> 10, certifications |-> 5, recommendations |-> 10, languages |-> 5,
     volunteer_experience |-> 3, publications_projects |-> 2]

\* the items of a sequence, as a set
Items(seq) == {seq[i] : i \in 1..Len(seq)}

\* the section is complete: a non-empty name and title for personal_info,
\* non-blank text for the summary, a non-empty list for any other
SectionIsComplete(profile, section) ==
    LET data == profile.o[section]
    IN CASE section = "personal_info" ->
              /\ data.o["name"] \notin {JNull, JStr("")}
              /\ data.o["title"] \notin {JNull, JStr("")}
         [] section = "summary" -> data \notin {JNull, JStr(""), JStr(" ")}
         [] OTHER -> data.t = "list" /\ data.l # <<>>

RECURSIVE SumOver(_, _)
SumOver(weights, sections) ==
    IF sections = {} THEN 0
    ELSE LET x == CHOOSE y \in sections : TRUE
         IN weights[x] + SumOver(weights, sections \ {x})

\* C15: calculate_profile_completeness returns for every profile record a
\* completeness_score that is the sum of the fixed weights of the complete
\* sections; completed_sections and missing_sections partition the ten
\* sections, with one suggestion per missing section; the profile with only
\* name and title filled scores 20 with personal_info alone completed and 9
\* sections missing.
C15_Completeness ==
    (routine_call.routine = "calculate_profile_completeness" /\ routine_call.applied = 1)
    => /\ routine_call.value.ok
       /\ LET profile == routine_call.input
              out == routine_call.value.val
              completed == Items(out.completed_sections)
              missing == Items(out.missing_sections)
          IN /\ SumOver(ClaimedWeights, DOMAIN ClaimedWeights) = 100
             /\ completed = {x \in DOMAIN ClaimedWeights : SectionIsComplete(profile, x)}
             /\ out.completeness_score = SumOver(ClaimedWeights, completed)
             /\ completed \cup missing = DOMAIN ClaimedWeights
             /\ completed \cap missing = {}
             /\ Len(out.completed_sections) + Len(out.missing_sections) = 10
             /\ Len(out.recommendations) = Len(out.missing_sections)
             /\ \A i \in 1..Len(out.missing_sections) :
                   out.recommendations[i].section = out.missing_sections[i]
             /\ profile = OnlyNameAndTitle
                => /\ out.completeness_score = 20
                   /\ out.completed_sections = <<"personal_info">>
                   /\ Len(out.missing_sections) = 9

\* the scorer has been applied to the profile with only name and title
C15_Witness ==
    /\ routine_call.routine = "calculate_profile_completeness"
    /\ routine_call.applied = 1
    /\ routine_call.input = OnlyNameAndTitle
    /\ routine_call.value.ok
\* C16: state.error is sticky: once it is non-empty no step of the run
\* changes it, and the result the run returns has success = false.
C16_ErrorSticky ==
    /\ [][\A r \in Runs :
            state[r].error # <<>> => state'[r].error = state[r].error]_vars
    /\ [](\A r \in Runs :
            (Returned(r) /\ state[r].error # <<>>) => result[r].success = FALSE)

\* a run whose collection failed with a non-critical error has gone through
\* all four nodes and returned, the collector's error still in state.error
C16_Witness ==
    /\ Returned(1)
    /\ visited[1] = <<"collect_profile", "analyze_profile", "generate_content",
                      "compile_results">>
    /\ state[1].error # <<>>
    /\ state[1].error[1] = LitCollection
    /\ result[1].error = state[1].error
C18_AssignedOnce ==
    /\ [][\A r \in Runs :
            state'[r].final_results # state[r].final_results
            => /\ pc[r] = "compile_results"
               /\ state[r].final_results = JNull]_vars
    /\ [](\A r \in Runs :
            /\ Len(assigned[r]) <= 1
            /\ pc[r] \in {"END", "done"}
               => /\ Len(assigned[r]) = 1
                  /\ state[r].final_results # JNull)
\* seq is a prefix of other
IsPrefix(seq, other) ==
    Len(seq) <= Len(other) /\ \A i \in 1..Len(seq) : seq[i] = other[i]

\* the keys are distinct stage names in pipeline order
InPipelineOrder(keys) ==
    \A i \in 1..Len(keys) :
       /\ \E n \in 1..Len(PipelineOrder) : PipelineOrder[n] = keys[i]
       /\ \A j \in (i + 1)..Len(keys) :
             \E n, m \in 1..Len(PipelineOrder) :
                n < m /\ PipelineOrder[n] = keys[i] /\ PipelineOrder[m] = keys[j]

\* the stages of run r that completed: the processing stages that set their
\* output record, and the compiler when it compiled a successful result
CompletedStages(r) ==
    {x \in Items(PipelineOrder) :
       \/ x = "profile_collection" /\ state[r].profile_data # JNull
       \/ x = "profile_analysis" /\ state[r].analysis_results # JNull
       \/ x = "content_generation" /\ state[r].content_results # JNull
       \/ x = "results_compilation" /\ state[r].final_results # JNull
             /\ state[r].final_results.success}

\* C19: step_timings is append-only and ordered: no step removes or
\* reorders a key, keys are added in pipeline order, and when the graph has
\* finished it has an entry for exactly the stages that completed, the
\* compiler included, and none for a stage that failed or was skipped.
C19_StepTimings ==
    /\ [][\A r \in Runs :
            IsPrefix(Keys(state[r].step_timings), Keys(state'[r].step_timings))]_vars
    /\ [](\A r \in Runs :
            /\ InPipelineOrder(Keys(state[r].step_timings))
            /\ pc[r] \in {"END", "done"}
               => Items(Keys(state[r].step_timings)) = CompletedStages(r))
\* the nodes that invoke the text generator, in pipeline order
ProcessingNodes == <<"collect_profile", "analyze_profile", "generate_content">>

\* the text-generator calls of run r, in the order they were made
LLMCalls(r) == InOrder([i \in 1..Len(calls[r]) |-> i], CallsTo(r, "llm.ainvoke"))

\* the node whose own step writes the progress record named step
WriterOf(step) ==
    CASE step = "optimization_started" -> "start"
      [] step = "profile_extraction" -> "collect_profile"
      [] step = "profile_analysis" -> "analyze_profile"
      [] step = "content_generation" -> "generate_content"
      [] step = "optimization_completed" -> "compile_results"

\* C20: no retry and strict sequencing: the text generator is invoked at
\* most once per stage and three times in all, in the order collector,
\* analyzer, generator; a stage's call is made only when the previous
\* stage's output record is set; after a call that raised or returned
\* unusable text no further call is made; and a progress record enters the
\* store only in the step of its own stage, never in a later one.
C20_NoRetry ==
    /\ [](\A r \in Runs :
            LET made == LLMCalls(r)
            IN /\ Len(made) <= 3
               /\ \A n \in 1..Len(made) :
                     /\ calls[r][made[n]].node = ProcessingNodes[n]
                     /\ n < Len(made) => calls[r][made[n]].returned = "json")
    /\ [][\A r \in Runs :
            /\ Len(calls'[r]) > Len(calls[r])
               => /\ calls[r] = SubSeq(calls'[r], 1, Len(calls[r]))
                  /\ Len(LLMCalls(r)') <= Len(LLMCalls(r)) + 1
                  /\ pc[r] = "analyze_profile" => state[r].profile_data # JNull
                  /\ pc[r] = "generate_content" => state[r].analysis_results # JNull
            /\ \A step \in Items(PersistedSteps(Record(r))') :
                  step \notin Items(PersistedSteps(Record(r))) => pc[r] = WriterOf(step)]_vars

\* a run has invoked the text generator three times and returned
C20_Witness ==
    /\ Returned(1)
    /\ Len(LLMCalls(1)) = 3
    /\ calls[1][LLMCalls(1)[3]].node = "generate_content"
\* the progress step written by the stage whose except branch set an error
\* that starts with prefix
FailedStep(prefix) ==
    CASE prefix = LitCollection -> "profile_extraction"
      [] prefix = LitAnalysis -> "profile_analysis"
      [] prefix = LitContent -> "content_generation"
      [] prefix = LitCompile -> "optimization_completed"

\* C21: with a working store, when run_optimization returns, the persisted
\* record has status "completed" if the result has success = true and
\* "failed" if it has success = false, its last progress write is the
\* optimization_completed step, and the progress record written by a
\* failing stage carries the message of the exception.
C21_PersistedStatus ==
    \A r \in Runs :
       /\ Returned(r)
          => /\ Record(r) # <<>>
             /\ Record(r)["status"] = IF result[r].success THEN "completed" ELSE "failed"
             /\ Record(r)["current_step"] = "optimization_completed"
             /\ PersistedSteps(Record(r))[Len(PersistedSteps(Record(r)))]
                  = "optimization_completed"
       /\ state[r].error # <<>>
          => LET step == FailedStep(Head(state[r].error))
             IN /\ Record(r) # <<>>
                /\ step \in DOMAIN Record(r)["step_details"]
                /\ Record(r)["step_details"][step].data.error = Tail(state[r].error)

\* a run whose analyzer call raised has returned and its record is "failed"
C21_Witness ==
    /\ Returned(1)
    /\ ~result[1].success
    /\ state[1].error # <<>>
    /\ Head(state[1].error) = LitAnalysis
    /\ Record(1)["status"] = "failed"
    /\ Record(1)["step_details"]["profile_analysis"].data.error = Tail(state[1].error)
\* C22: in a successful result the summary's profile_completeness equals
\* the completeness_score that the weighted ten-section scorer
\* (ProfileAnalyzerAgent.calculate_profile_completeness) gives for the
\* profile record of that result.
C22_WeightedCompleteness ==
    \A r \in Runs :
       (Returned(r) /\ result[r].success /\ "profile_completeness" \in DOMAIN result[r].summary)
       => \E scored \in {analyzer_calculate_profile_completeness(result[r].profile_data)} :
             /\ scored.ok
             /\ result[r].summary["profile_completeness"] = scored.val.completeness_score
TokenCounters == {"prompt_tokens", "completion_tokens", "total_tokens"}

\* what a record of the result contributes to a counter: the counter of its
\* token_usage sub-record, 0 when it has none
Contribution(record, counter) ==
    IF record.t = "obj" /\ "token_usage" \in DOMAIN record.o
       /\ counter \in DOMAIN record.o["token_usage"].o
    THEN record.o["token_usage"].o[counter].n
    ELSE 0

\* C23: in a successful result each counter of token_usage is the sum of
\* that counter over those of profile_data, analysis_results and
\* content_results that carry a token_usage sub-record.
C23_TokenUsageSummed ==
    \A r \in Runs :
       (Returned(r) /\ result[r].success)
       => \A counter \in TokenCounters :
             result[r].token_usage[counter]
               = Contribution(result[r].profile_data, counter)
                 + Contribution(result[r].analysis_results, counter)
                 + Contribution(result[r].content_results, counter)

\* a successful result whose profile record reports no tokens and whose
\* other two records report different counts
C23_Witness ==
    /\ Returned(1)
    /\ result[1].success
    /\ Contribution(result[1].profile_data, "total_tokens") = 0
    /\ Contribution(result[1].analysis_results, "total_tokens") = 3
    /\ Contribution(result[1].content_results, "total_tokens") = 7
    /\ result[1].token_usage["total_tokens"] = 10
\* C24: when a validator is given a parsed object in which a field that
\* should be a list, or a sub-record, holds a value of another JSON type,
\* it returns without raising and every such list field is an empty list
\* in what it returns.
C24_WrongShapeCoerced ==
    routine_call.routine # "none" /\ routine_call.applied = 1
    => /\ routine_call.value.ok
       /\ \A path \in ListFields(routine_call.routine) :
             At(routine_call.input, path).t # "list"
             => At(routine_call.value.val, path) = JList(<<>>)
\* C25: when all three processing stages have succeeded, the step of
\* compile_results ends with success = true whatever the measured step
\* durations are, all of them 0 included.
C25_SuccessForAnyDurations ==
    [][\A r \in Runs :
         (pc[r] = "compile_results" /\ pc'[r] = "END"
          /\ AllStagesSucceeded(r) /\ state[r].error = <<>>)
         => state'[r].final_results.success]_vars
\* the step data of the completion record persisted for run r
CompletionData(r) == Record(r)["step_details"]["optimization_completed"].data

\* C26: the two classifiers agree: for every error set by collect_profile
\* or analyze_profile, the routing guard answers "stop" (and the run skips
\* the remaining stages) if and only if compile_results records
\* is_critical = true for that error in the persisted failed completion
\* record.
C26_ClassifiersAgree ==
    \A r \in Runs :
       (ErrorBranchTaken(r) /\ Head(state[r].error) \in {LitCollection, LitAnalysis})
       => /\ Record(r)["status"] = "failed"
          /\ CompletionData(r).original_error = state[r].error
          /\ CompletionData(r).is_critical \in BOOLEAN
          /\ should_continue(state[r].error) = "stop" <=> CompletionData(r).is_critical
          /\ CompletionData(r).is_critical
             <=> visited[r] = IF Head(state[r].error) = LitCollection
                              THEN <<"collect_profile", "compile_results">>
                              ELSE <<"collect_profile", "analyze_profile", "compile_results">>

\* the analyzer's call raised a critical error and the completion record
\* says is_critical
C26_Witness ==
    /\ Returned(1)
    /\ state[1].error # <<>>
    /\ Head(state[1].error) = LitAnalysis
    /\ should_continue(state[1].error) = "stop"
    /\ CompletionData(1).is_critical
\* the positions of the calls of run r that returned True
Successful(r) == {i \in 1..Len(calls[r]) : calls[r][i].ok}

\* the position of the first successful write of a step name
FirstWrite(r, step_name) ==
    CHOOSE i \in Successful(r) :
       /\ calls[r][i].step_name = step_name
       /\ \A j \in Successful(r) : calls[r][j].step_name = step_name => i <= j

\* C27: after any sequence of save_step_progress calls for one
\* optimization_id, processing_steps holds no step name twice, lists the
\* names in the order of their first successful write, and current_step is
\* the step name of the most recent successful write.
C27_StepsInFirstWriteOrder ==
    Successful(1) # {}
    => LET steps == PersistedSteps(Record(1))
           last == CHOOSE i \in Successful(1) : \A j \in Successful(1) : j <= i
       IN /\ \A i, j \in 1..Len(steps) : steps[i] = steps[j] => i = j
          /\ \A i \in 1..Len(steps) :
                \E k \in Successful(1) : calls[1][k].step_name = steps[i]
          /\ \A i, j \in 1..Len(steps) :
                i < j => FirstWrite(1, steps[i]) < FirstWrite(1, steps[j])
          /\ Record(1)["current_step"] = calls[1][last].step_name
\* C28: within a run, once the persisted record of the request has status
\* "failed" or "completed", no later write sets it back to "processing".
C28_StatusFinal ==
    [][\A r \in Runs :
         (Record(r) # <<>> /\ Record(r)["status"] \in {"failed", "completed"})
         => /\ Record(r)' # <<>>
            /\ Record(r)'["status"] # "processing"]_vars

\* the collector failed, the record is "failed", and the run went on
\* through the remaining nodes to its end
C28_Witness ==
    /\ Returned(1)
    /\ state[1].error # <<>>
    /\ Head(state[1].error) = LitCollection
    /\ visited[1] = <<"collect_profile", "analyze_profile", "generate_content", "compile_results">>
    /\ Record(1) # <<>>
    /\ "profile_extraction" \in DOMAIN Record(1)["step_details"]
    /\ Record(1)["status"] = "failed"
\* the progress_percentage the /progress endpoint computes from the
\* persisted item (main.py, get_optimization_progress): the share of the
\* five stage names in processing_steps, 100 when the status is "completed"
progress_percentage(item) ==
    LET completed_steps == PersistedSteps(item)
        all_steps == StageNames
        status == IF "status" \in DOMAIN item THEN item["status"] ELSE "unknown"
    IN IF status = "completed" THEN 100
       ELSE (Len(completed_steps) * 100) \div Len(all_steps)

\* C29: over the store states of one run the progress_percentage computed
\* from the persisted record never decreases, lies in 0..100, and is 100
\* whenever the persisted status is "completed".
C29_ProgressMonotone ==
    /\ [](\A r \in Runs :
            Record(r) # <<>> =>
              /\ progress_percentage(Record(r)) \in 0..100
              /\ Record(r)["status"] = "completed"
                   => progress_percentage(Record(r)) = 100)
    /\ [][\A r \in Runs :
            Record(r) # <<>> =>
              /\ Record(r)' # <<>>
              /\ progress_percentage(Record(r)') >= progress_percentage(Record(r))]_vars
\* C30: the created_at of a request's record is fixed by the first
\* successful write of the run and left unchanged by every later progress
\* or result write, while every write refreshes updated_at.
C30_CreatedAtFixed ==
    [][\A r \in Runs :
         Record(r)' # Record(r) =>
           /\ Record(r)' # <<>>
           /\ Record(r)'["updated_at"] >= clock
           /\ Record(r) # <<>> => Record(r)'["created_at"] = Record(r)["created_at"]]_vars
====
